---- MODULE Spec2Model ----
(***************************************************************************)
(* Shifting Pixel: the platform simulation of GameScreen.tsx (gameLoop,    *)
(* the level build effect, the levelId effect, the ticker effect) and the  *)
(* host of page.tsx (HomePage: level requests, loading flag, level count). *)
(*                                                                         *)
(* Lengths are fixed-point: one model unit is 1/Scale pixel, so that the   *)
(* per-tick speeds 0.5 and 0.3 of the source are the integers 5 and 3.     *)
(* Every length of the source is a multiple of 0.1 when the level payload  *)
(* holds integers, so the arithmetic below is the source's arithmetic on   *)
(* exact decimals (binary floating-point rounding is not modelled).        *)
(***************************************************************************)
EXTENDS Integers, Sequences, FiniteSets, TLC

Scale == 10

PLAYER_WIDTH == 8 * Scale
PLAYER_HEIGHT == 16 * Scale
PLAYER_CROUCH_HEIGHT == 8 * Scale
PLAYER_SPEED == 2 * Scale
JUMP_FORCE == 7 * Scale
GRAVITY == 3
DEFAULT_PLATFORM_HEIGHT == 10 * Scale
DEFAULT_PLATFORM_MOVE_SPEED == 5
DEFAULT_PLATFORM_MOVE_RANGE == 50 * Scale
TIMED_PLATFORM_VISIBLE_DURATION == 3 * 60
TIMED_PLATFORM_HIDDEN_DURATION == 2 * 60
BREAKABLE_PLATFORM_BREAK_DELAY == 30
BREAKABLE_PLATFORM_RESPAWN_DURATION == 5 * 60
LOGICAL_GAME_HEIGHT == 300 * Scale
DEATH_MARGIN == 200 * Scale
ONE == 1 * Scale

Abs(n) == IF n < 0 THEN -n ELSE n

(***************************************************************************)
(* Numbers are doubles.  A finite double lies within -Number.MAX_VALUE ..  *)
(* Number.MAX_VALUE, for which MaxDouble stands (in units of 1/Scale       *)
(* pixel, beyond the coordinates of the levels played here); a result      *)
(* beyond it is an infinity, and NaN, the value of arithmetic on an        *)
(* undefined member, is the third value that is not finite.                *)
(***************************************************************************)
MaxDouble == 10000

PosInfinity == MaxDouble + 1

NegInfinity == -(MaxDouble + 1)

NaN == MaxDouble + 2

\* Number.isFinite (lines 672-674)
isFinite(v) == v >= -MaxDouble /\ v <= MaxDouble

\* a result of an operation on finite doubles
Overflow(n) ==
  IF n > MaxDouble THEN PosInfinity ELSE IF n < -MaxDouble THEN NegInfinity ELSE n

\* a + b on doubles
Plus(a, b) ==
  IF a = NaN \/ b = NaN THEN NaN
  ELSE IF a = PosInfinity THEN (IF b = NegInfinity THEN NaN ELSE PosInfinity)
  ELSE IF a = NegInfinity THEN (IF b = PosInfinity THEN NaN ELSE NegInfinity)
  ELSE IF ~isFinite(b) THEN b
  ELSE Overflow(a + b)

\* a - b on doubles
Minus(a, b) == Plus(a, IF b = NaN THEN NaN ELSE -b)

Trunc(n, d) == IF n >= 0 THEN n \div d ELSE -((-n) \div d)

\* a < b on doubles: false when either is NaN
Less(a, b) == a # NaN /\ b # NaN /\ a < b

(***************************************************************************)
(* Level payloads.  A payload is the levelData the component is given; it  *)
(* is modelled by what JSON.parse makes of it: text is "json" for a        *)
(* well-formed document, "undefined", "empty", "blank" (whitespace only)   *)
(* or "malformed"; doc is the kind of value the document denotes           *)
(* ("object", "array", "null", "primitive": a number, string or boolean);  *)
(* field says what the document's platforms member is ("array", "missing", *)
(* "other": any value that is not an array); the descriptors hold pixels   *)
(* (x, y, width) and the type tag ("" = no tag).  numeric tells whether x, *)
(* y and width are all JSON numbers.                                       *)
(***************************************************************************)
D(x, y, w, t) == [x |-> x, y |-> y, width |-> w, type |-> t, numeric |-> TRUE]

\* a descriptor whose x member is null, which every arithmetic operator and
\* comparison of the source reads as the number 0
DNullX(y, w, t) == [x |-> 0, y |-> y, width |-> w, type |-> t, numeric |-> FALSE]

\* a descriptor without a y member (undefined), which arithmetic reads as NaN
DNoY(x, w, t) == [x |-> x, y |-> NaN, width |-> w, type |-> t, numeric |-> FALSE]

Json(ds) == [text |-> "json", doc |-> "object", field |-> "array", platforms |-> ds]

\* a well-formed document of another shape, and a text that is no document
Doc(doc, field) == [text |-> "json", doc |-> doc, field |-> field, platforms |-> << >>]

Text(text) == [text |-> text, doc |-> "none", field |-> "missing", platforms |-> << >>]

Payloads ==
  << Json(<< D(0, 100, 20, "standard") >>),
     Json(<< D(0, 100, 20, "standard"), D(40, 100, 20, "standard") >>),
     Json(<< D(0, 100, 4, "standard"), D(4, 100, 14, "standard"),
             D(0, 72, 4, "standard"), D(4, 70, 14, "standard") >>),
     Json(<< D(0, 100, 20, "breakable"), D(0, 70, 20, "timed"),
             D(0, 180, 20, "vertical_mobile") >>),
     Json(<< D(0, 100, 20, "standard"), D(40, 100, 10, "mobile"),
             D(60, 100, 20, "timed") >>),
     Json(<< D(0, 100, 20, "timed"), D(0, 130, 20, "vertical_mobile") >>),
     Json(<< D(20, 100, 4, "breakable"), D(0, 122, 20, "mobile") >>),
     Json(<< >>),
     Doc("object", "missing"),
     Doc("object", "other"),
     Doc("array", "missing"),
     Doc("null", "missing"),
     Doc("primitive", "missing"),
     Text("malformed"),
     Text("blank"),
     Text("empty"),
     Text("undefined"),
     Json(<< D(0, 100, 20, "standard"), DNullX(100, 30, "standard") >>),
     Json(<< D(0, 100, 20, "timed"), D(30, 100, 20, "standard"),
             D(60, 100, 10, "mobile"), D(0, 160, 20, "breakable"),
             D(0, 230, 20, "vertical_mobile") >>),
     Json(<< D(0, 100, 20, "standard"), D(12, 60, 8, "standard") >>),
     Json(<< D(0, 100, 20, "standard") >>),
     Json(<< D(-900, 100, 20, "standard"), D(-5, 90, 900, "standard"),
             D(-950, 90, 950, "standard") >>),
     Json(<< D(0, 100, 20, "breakable"), D(0, 300, 20, "vertical_mobile") >>),
     Json(<< D(0, 100, 20, "standard"), DNoY(40, 20, "standard") >>),
     Json(<< D(0, 100, 20, "timed") >>)
  >>

NullData == [ok |-> FALSE, platforms |-> << >>]

\* parseLevelData that gives up on a document without a platforms array, where
\* line 38 makes its platforms the empty list
parseLevelData_rejectsNonArray(payload) ==
  IF payload.text # "json" THEN NullData
  ELSE IF payload.doc \in {"null", "primitive"} THEN NullData
  ELSE IF payload.field # "array" THEN NullData
  ELSE [ok |-> TRUE, platforms |-> payload.platforms]

\* lines 32-45.  JSON.parse throws on a malformed text; reading platforms of
\* null throws; assigning platforms to a number, string or boolean throws in
\* the strict mode of a module; each throw is caught at line 41.
parseLevelData(payload) ==
  IF payload.text # "json" THEN NullData
  ELSE IF payload.doc \in {"null", "primitive"} THEN NullData
  ELSE [ok |-> TRUE,
        platforms |-> IF payload.field = "array" THEN payload.platforms ELSE << >>]

(***************************************************************************)
(* Geometry                                                                *)
(***************************************************************************)
Rect(x, y, w, h) == [x |-> x, y |-> y, width |-> w, height |-> h]

checkCollision(rect1, rect2) ==
  /\ Less(rect1.x, Plus(rect2.x, rect2.width))
  /\ Less(rect2.x, Plus(rect1.x, rect1.width))
  /\ Less(rect1.y, Plus(rect2.y, rect2.height))
  /\ Less(rect2.y, Plus(rect1.y, rect1.height))

PlatRect(p) == Rect(p.x, p.y, p.width, p.height)

PlayerRect(pl) == Rect(pl.x, pl.y, pl.width, pl.height)

(***************************************************************************)
(* Platform runtime objects (PlatformObject).  x, y are sprite.x, sprite.y.*)
(* Fields the source leaves undefined for a type hold 0 / FALSE here; the  *)
(* source reads them only under a test of the type.                        *)
(***************************************************************************)
\* pixels of a descriptor in units of 1/Scale pixel
ToUnits(v) == IF v = NaN THEN NaN ELSE v * Scale

NewPlatform(d) ==
  [ initialX |-> d.x * Scale, initialY |-> ToUnits(d.y),
    width |-> d.width * Scale, height |-> DEFAULT_PLATFORM_HEIGHT,
    type |-> IF d.type = "" THEN "standard" ELSE d.type,
    x |-> d.x * Scale, y |-> ToUnits(d.y),
    currentSpeedX |-> 0, currentSpeedY |-> 0,
    moveDirectionX |-> IF d.type = "mobile" THEN 1 ELSE 0,
    moveRangeX |-> IF d.type = "mobile"
                   THEN (IF d.width > 0
                         THEN (d.width * Scale * 8) \div 10 + 20 * Scale
                         ELSE DEFAULT_PLATFORM_MOVE_RANGE)
                   ELSE 0,
    moveDirectionY |-> IF d.type = "vertical_mobile" THEN 1 ELSE 0,
    moveRangeY |-> IF d.type = "vertical_mobile" THEN DEFAULT_PLATFORM_MOVE_RANGE ELSE 0,
    isVisible |-> (d.type = "timed"),
    timer |-> IF d.type = "timed" THEN TIMED_PLATFORM_VISIBLE_DURATION ELSE 0,
    isBroken |-> FALSE, isBreaking |-> FALSE,
    breakingTimer |-> 0, respawnTimer |-> 0,
    spriteVisible |-> TRUE ]

\* the collidablePlatforms filter without its test of a timed platform's visibility
Collidable_ignoresVisibility(p) ==
  ~(p.type = "breakable"
    /\ (p.isBroken \/ (p.isBreaking /\ p.breakingTimer <= 0)))

\* otherSolid of the oscillators' blocking test, and the collidablePlatforms filter
OtherSolid(p) ==
  ~( (p.type = "timed" /\ ~p.isVisible)
     \/ (p.type = "breakable"
         /\ (p.isBroken \/ (p.isBreaking /\ p.breakingTimer <= 0))) )

Collidable(p) ==
  /\ ~(p.type = "breakable"
       /\ (p.isBroken \/ (p.isBreaking /\ p.breakingTimer <= 0)))
  /\ ~(p.type = "timed" /\ ~p.isVisible)

\* pSolid of the uncrouch clearance test
UncrouchSolid(p) ==
  ~( (p.type = "timed" /\ ~p.isVisible)
     \/ (p.type = "breakable" /\ (p.isBroken \/ p.isBreaking)) )

\* the test of the stale-standingOn clearing and of the standing reconciliation
Vanished(p) ==
  (p.type = "timed" /\ ~p.isVisible) \/ (p.type = "breakable" /\ p.isBroken)

\* the blocking test without otherSolid: every other platform blocks
Blocked_byAnyPlatform(ps, i, cand) ==
  \E j \in 1..Len(ps) : j # i /\ checkCollision(cand, PlatRect(ps[j]))

\* lines 460-466, 482-488: the candidate rectangle of platform i meets another
\* solid platform
Blocked(ps, i, cand) ==
  \E j \in 1..Len(ps) : j # i /\ OtherSolid(ps[j]) /\ checkCollision(cand, PlatRect(ps[j]))

\* type 'mobile'
MoveMobile(ps, i) ==
  LET p == ps[i]
      nextX == p.x + DEFAULT_PLATFORM_MOVE_SPEED * p.moveDirectionX
      collided == Blocked(ps, i, Rect(nextX, p.y, p.width, p.height))
      hi == p.initialX + p.moveRangeX
      lo == p.initialX - p.moveRangeX
      res == IF collided THEN << p.x, -p.moveDirectionX >>
             ELSE IF p.moveDirectionX = 1 /\ nextX > hi THEN << hi, -1 >>
             ELSE IF p.moveDirectionX = -1 /\ nextX < lo THEN << lo, 1 >>
             ELSE << nextX, p.moveDirectionX >>
  IN [p EXCEPT !.x = res[1], !.moveDirectionX = res[2], !.currentSpeedX = res[1] - p.x]

\* type 'vertical_mobile' without the clamp of lines 490-494
MoveVertical_noClamp(ps, i) ==
  LET p == ps[i]
      nextY == p.y + DEFAULT_PLATFORM_MOVE_SPEED * p.moveDirectionY
      collided == Blocked(ps, i, Rect(p.x, nextY, p.width, p.height))
      res == IF collided THEN << p.y, -p.moveDirectionY >>
             ELSE << nextY, p.moveDirectionY >>
  IN [p EXCEPT !.y = res[1], !.moveDirectionY = res[2], !.currentSpeedY = res[1] - p.y]

\* type 'vertical_mobile'
MoveVertical(ps, i) ==
  LET p == ps[i]
      nextY == p.y + DEFAULT_PLATFORM_MOVE_SPEED * p.moveDirectionY
      collided == Blocked(ps, i, Rect(p.x, nextY, p.width, p.height))
      hi == p.initialY + p.moveRangeY
      lo == p.initialY - p.moveRangeY
      res == IF collided THEN << p.y, -p.moveDirectionY >>
             ELSE IF p.moveDirectionY = 1 /\ nextY > hi THEN << hi, -1 >>
             ELSE IF p.moveDirectionY = -1 /\ nextY < lo THEN << lo, 1 >>
             ELSE << nextY, p.moveDirectionY >>
  IN [p EXCEPT !.y = res[1], !.moveDirectionY = res[2], !.currentSpeedY = res[1] - p.y]

\* type 'timed', reloading the timer with the duration of the state it leaves
StepTimed_reloadsOldDuration(p) ==
  LET t == p.timer - 1
  IN IF t <= 0
     THEN [p EXCEPT !.isVisible = ~p.isVisible, !.spriteVisible = ~p.isVisible,
                    !.timer = IF p.isVisible THEN TIMED_PLATFORM_VISIBLE_DURATION
                              ELSE TIMED_PLATFORM_HIDDEN_DURATION]
     ELSE [p EXCEPT !.timer = t]

\* type 'timed'
StepTimed(p) ==
  LET t == p.timer - 1
  IN IF t <= 0
     THEN [p EXCEPT !.isVisible = ~p.isVisible, !.spriteVisible = ~p.isVisible,
                    !.timer = IF ~p.isVisible THEN TIMED_PLATFORM_VISIBLE_DURATION
                              ELSE TIMED_PLATFORM_HIDDEN_DURATION]
     ELSE [p EXCEPT !.timer = t]

\* lines 502-513 without the pObj.isBreaking = false of line 507
StepBreakable_staysBreaking(p) ==
  IF p.isBreaking /\ p.breakingTimer > 0
  THEN IF p.breakingTimer - 1 <= 0
       THEN [p EXCEPT !.breakingTimer = p.breakingTimer - 1, !.isBroken = TRUE,
                      !.spriteVisible = FALSE,
                      !.respawnTimer = BREAKABLE_PLATFORM_RESPAWN_DURATION]
       ELSE [p EXCEPT !.breakingTimer = p.breakingTimer - 1]
  ELSE IF p.isBroken
       THEN IF p.respawnTimer - 1 <= 0
            THEN [p EXCEPT !.respawnTimer = p.respawnTimer - 1, !.isBroken = FALSE,
                           !.spriteVisible = TRUE, !.isBreaking = FALSE,
                           !.breakingTimer = 0]
            ELSE [p EXCEPT !.respawnTimer = p.respawnTimer - 1]
       ELSE p

\* type 'breakable'; breaksNow tells the caller to drop the player standing on it
StepBreakable(p) ==
  IF p.isBreaking /\ p.breakingTimer > 0
  THEN IF p.breakingTimer - 1 <= 0
       THEN [p EXCEPT !.breakingTimer = p.breakingTimer - 1, !.isBroken = TRUE,
                      !.spriteVisible = FALSE,
                      !.respawnTimer = BREAKABLE_PLATFORM_RESPAWN_DURATION,
                      !.isBreaking = FALSE]
       ELSE [p EXCEPT !.breakingTimer = p.breakingTimer - 1]
  ELSE IF p.isBroken
       THEN IF p.respawnTimer - 1 <= 0
            THEN [p EXCEPT !.respawnTimer = p.respawnTimer - 1, !.isBroken = FALSE,
                           !.spriteVisible = TRUE, !.isBreaking = FALSE,
                           !.breakingTimer = 0]
            ELSE [p EXCEPT !.respawnTimer = p.respawnTimer - 1]
       ELSE p

\* one iteration of platformObjectsRef.current.forEach: platform i, in place
StepPlatform(ps, i) ==
  LET p0 == [ps[i] EXCEPT !.currentSpeedX = 0, !.currentSpeedY = 0]
      ps0 == [ps EXCEPT ![i] = p0]
  IN IF p0.type = "mobile" THEN [ps0 EXCEPT ![i] = MoveMobile(ps0, i)]
     ELSE IF p0.type = "vertical_mobile" THEN [ps0 EXCEPT ![i] = MoveVertical(ps0, i)]
     ELSE IF p0.type = "timed" THEN [ps0 EXCEPT ![i] = StepTimed(p0)]
     ELSE IF p0.type = "breakable" THEN [ps0 EXCEPT ![i] = StepBreakable(p0)]
     ELSE ps0

\* the platforms after the first k iterations of the forEach
RECURSIVE PlatformsAfter(_, _)
PlatformsAfter(ps, k) ==
  IF k = 0 THEN ps ELSE StepPlatform(PlatformsAfter(ps, k - 1), k)

UpdatePlatforms(ps) == PlatformsAfter(ps, Len(ps))

\* the breakables that flip to broken in this tick
BrokeNow(ps, ps1, i) ==
  ps[i].type = "breakable" /\ ~ps[i].isBroken /\ ps1[i].isBroken

\* the flip to broken without the second statement of line 507
DropFromBroken_keepsStanding(pl, ps, ps1) == pl

\* line 507: the player standing on a platform that flips to broken is dropped
DropFromBroken(pl, ps, ps1) ==
  IF pl.standingOnPlatform # 0 /\ BrokeNow(ps, ps1, pl.standingOnPlatform)
  THEN [pl EXCEPT !.standingOnPlatform = 0, !.onGround = FALSE]
  ELSE pl

(***************************************************************************)
(* The player (playerRef.current).  present = FALSE is the null ref.       *)
(* standingOnPlatform is the index of the platform object, 0 for null.     *)
(***************************************************************************)
NoPlayer ==
  [ present |-> FALSE, x |-> 0, y |-> 0, vx |-> 0, vy |-> 0,
    isJumping |-> FALSE, isCrouching |-> FALSE, onGround |-> FALSE,
    width |-> PLAYER_WIDTH, height |-> PLAYER_HEIGHT, standingOnPlatform |-> 0 ]

CrouchKey(keys) == "KeyS" \in keys \/ "ArrowDown" \in keys
LeftKey(keys) == "KeyA" \in keys \/ "ArrowLeft" \in keys
RightKey(keys) == "KeyD" \in keys \/ "ArrowRight" \in keys
JumpKey(keys) == "KeyW" \in keys \/ "ArrowUp" \in keys \/ "Space" \in keys

\* lines 516-519 without line 518: the player is carried sideways only
Carry_onlyHorizontal(pl, ps) ==
  IF pl.onGround /\ pl.standingOnPlatform # 0
  THEN [pl EXCEPT !.x = @ + ps[pl.standingOnPlatform].currentSpeedX]
  ELSE pl

\* lines 516-519
Carry(pl, ps) ==
  IF pl.onGround /\ pl.standingOnPlatform # 0
  THEN [pl EXCEPT !.x = @ + ps[pl.standingOnPlatform].currentSpeedX,
                  !.y = @ + ps[pl.standingOnPlatform].currentSpeedY]
  ELSE pl

\* line 529-535: the full-height box with the same feet overlaps no pSolid platform
CanUncrouch(pl, ps) ==
  LET heightDiff == PLAYER_HEIGHT - PLAYER_CROUCH_HEIGHT
      box == Rect(pl.x, pl.y - heightDiff, pl.width, PLAYER_HEIGHT)
  IN ~ \E i \in 1..Len(ps) : UncrouchSolid(ps[i]) /\ checkCollision(box, PlatRect(ps[i]))

\* lines 521-539 without the shifts of player.y of lines 526 and 534
CrouchTransition_keepsY(pl, ps, keys) ==
  LET wasCrouching == pl.isCrouching
      isCrouching == CrouchKey(keys) /\ pl.onGround
      targetHeight == IF isCrouching THEN PLAYER_CROUCH_HEIGHT ELSE PLAYER_HEIGHT
      pl1 == [pl EXCEPT !.isCrouching = isCrouching]
  IN IF pl.height # targetHeight
     THEN IF isCrouching /\ ~wasCrouching
          THEN [pl1 EXCEPT !.height = PLAYER_CROUCH_HEIGHT]
          ELSE IF ~isCrouching /\ wasCrouching
               THEN IF CanUncrouch(pl, ps)
                    THEN [pl1 EXCEPT !.height = PLAYER_HEIGHT]
                    ELSE [pl1 EXCEPT !.isCrouching = TRUE]
               ELSE pl1
     ELSE pl1

\* lines 521-539 without the else of line 537: a refused uncrouch leaves
\* isCrouching as line 522 set it
CrouchTransition_refusalStands(pl, ps, keys) ==
  LET wasCrouching == pl.isCrouching
      isCrouching == CrouchKey(keys) /\ pl.onGround
      targetHeight == IF isCrouching THEN PLAYER_CROUCH_HEIGHT ELSE PLAYER_HEIGHT
      heightDiff == PLAYER_HEIGHT - PLAYER_CROUCH_HEIGHT
      pl1 == [pl EXCEPT !.isCrouching = isCrouching]
  IN IF pl.height # targetHeight
     THEN IF isCrouching /\ ~wasCrouching
          THEN [pl1 EXCEPT !.y = @ + heightDiff, !.height = PLAYER_CROUCH_HEIGHT]
          ELSE IF ~isCrouching /\ wasCrouching /\ CanUncrouch(pl, ps)
               THEN [pl1 EXCEPT !.y = @ - heightDiff, !.height = PLAYER_HEIGHT]
               ELSE pl1
     ELSE pl1

\* lines 521-539
CrouchTransition(pl, ps, keys) ==
  LET wasCrouching == pl.isCrouching
      isCrouching == CrouchKey(keys) /\ pl.onGround
      targetHeight == IF isCrouching THEN PLAYER_CROUCH_HEIGHT ELSE PLAYER_HEIGHT
      heightDiff == PLAYER_HEIGHT - PLAYER_CROUCH_HEIGHT
      pl1 == [pl EXCEPT !.isCrouching = isCrouching]
  IN IF pl.height # targetHeight
     THEN IF isCrouching /\ ~wasCrouching
          THEN [pl1 EXCEPT !.y = @ + heightDiff, !.height = PLAYER_CROUCH_HEIGHT]
          ELSE IF ~isCrouching /\ wasCrouching
               THEN IF CanUncrouch(pl, ps)
                    THEN [pl1 EXCEPT !.y = @ - heightDiff, !.height = PLAYER_HEIGHT]
                    ELSE [pl1 EXCEPT !.isCrouching = TRUE]
               ELSE pl1
     ELSE pl1

\* lines 541-545
HorizontalInput(pl, keys) ==
  LET v1 == IF ~pl.isCrouching /\ LeftKey(keys) THEN -PLAYER_SPEED ELSE 0
      v2 == IF ~pl.isCrouching /\ RightKey(keys) THEN PLAYER_SPEED ELSE v1
  IN [pl EXCEPT !.vx = v2]

\* the test of line 547 without player.onGround
JumpStarts_inTheAir(pl, keys) == JumpKey(keys) /\ ~pl.isCrouching

\* line 547
JumpStarts(pl, keys) == JumpKey(keys) /\ pl.onGround /\ ~pl.isCrouching

\* lines 547-554
Jump(pl, keys) ==
  IF JumpStarts(pl, keys)
  THEN [pl EXCEPT !.vy = -JUMP_FORCE, !.isJumping = TRUE, !.onGround = FALSE,
                  !.standingOnPlatform = 0]
  ELSE pl

\* lines 556-557
Gravity(pl) ==
  IF ~pl.onGround THEN [pl EXCEPT !.vy = Plus(@, GRAVITY)]
  ELSE IF pl.vy > 0 THEN [pl EXCEPT !.vy = 0] ELSE pl

\* lines 559-560
Integrate(pl) == [pl EXCEPT !.x = Plus(@, pl.vx), !.y = Plus(@, pl.vy)]

\* lines 563-569 without line 562 (player.onGround = false)
ClearGround_keepsGround(pl, ps) ==
  IF pl.standingOnPlatform # 0 /\ Vanished(ps[pl.standingOnPlatform])
  THEN [pl EXCEPT !.standingOnPlatform = 0]
  ELSE pl

\* lines 562-569
ClearGround(pl, ps) ==
  LET pl1 == [pl EXCEPT !.onGround = FALSE]
  IN IF pl1.standingOnPlatform # 0 /\ Vanished(ps[pl1.standingOnPlatform])
     THEN [pl1 EXCEPT !.standingOnPlatform = 0]
     ELSE pl1

\* lines 577-586, one platform of the loop
HorizontalStep(pl, p, prevPlayerY) ==
  IF checkCollision(Rect(pl.x, prevPlayerY, pl.width, pl.height), PlatRect(p))
  THEN [pl EXCEPT !.x = IF pl.vx > 0 THEN p.x - pl.width
                        ELSE IF pl.vx < 0 THEN p.x + p.width ELSE @,
                  !.vx = 0]
  ELSE pl

RECURSIVE HorizontalPassUpTo(_, _, _, _)
HorizontalPassUpTo(pl, ps, prevPlayerY, k) ==
  IF k = 0 THEN pl
  ELSE LET before == HorizontalPassUpTo(pl, ps, prevPlayerY, k - 1)
       IN IF Collidable(ps[k]) THEN HorizontalStep(before, ps[k], prevPlayerY)
          ELSE before

HorizontalPass(pl, ps, prevPlayerY) == HorizontalPassUpTo(pl, ps, prevPlayerY, Len(ps))

\* line 594 and line 605
LandsOn(pl, p, prevPlayerY) == prevPlayerY + pl.height <= p.y + ONE
BumpsUnder(pl, p, prevPlayerY) == prevPlayerY >= p.y + p.height - ONE

\* the vertical pass whose bump under a platform does not zero the velocity
VerticalStep_keepsVy(st, i, prevPlayerY) ==
  LET pl == st.pl
      p == st.ps[i]
  IN IF ~checkCollision(PlayerRect(pl), PlatRect(p)) THEN st
     ELSE IF pl.vy > 0
          THEN IF LandsOn(pl, p, prevPlayerY)
               THEN [ pl |-> [pl EXCEPT !.y = p.y - pl.height, !.vy = 0,
                                        !.isJumping = FALSE, !.onGround = TRUE,
                                        !.standingOnPlatform = i],
                      ps |-> IF p.type = "breakable" /\ ~p.isBroken /\ ~p.isBreaking
                             THEN [st.ps EXCEPT ![i].isBreaking = TRUE,
                                      ![i].breakingTimer = BREAKABLE_PLATFORM_BREAK_DELAY]
                             ELSE st.ps,
                      landed |-> i, bumped |-> st.bumped ]
               ELSE st
          ELSE IF pl.vy < 0 /\ BumpsUnder(pl, p, prevPlayerY)
               THEN [st EXCEPT !.pl = [pl EXCEPT !.y = p.y + p.height], !.bumped = i]
               ELSE st

\* the vertical pass whose landing restarts the break delay of a breaking platform
VerticalStep_restartsDelay(st, i, prevPlayerY) ==
  LET pl == st.pl
      p == st.ps[i]
  IN IF ~checkCollision(PlayerRect(pl), PlatRect(p)) THEN st
     ELSE IF pl.vy > 0
          THEN IF LandsOn(pl, p, prevPlayerY)
               THEN [ pl |-> [pl EXCEPT !.y = p.y - pl.height, !.vy = 0,
                                        !.isJumping = FALSE, !.onGround = TRUE,
                                        !.standingOnPlatform = i],
                      ps |-> IF p.type = "breakable" /\ ~p.isBroken
                             THEN [st.ps EXCEPT ![i].isBreaking = TRUE,
                                      ![i].breakingTimer = BREAKABLE_PLATFORM_BREAK_DELAY]
                             ELSE st.ps,
                      landed |-> i, bumped |-> st.bumped ]
               ELSE st
          ELSE IF pl.vy < 0 /\ BumpsUnder(pl, p, prevPlayerY)
               THEN [st EXCEPT !.pl = [pl EXCEPT !.y = p.y + p.height, !.vy = 0],
                               !.bumped = i]
               ELSE st

\* lines 588-610, one platform of the loop; st = [pl, ps, landed, bumped]
VerticalStep(st, i, prevPlayerY) ==
  LET pl == st.pl
      p == st.ps[i]
  IN IF ~checkCollision(PlayerRect(pl), PlatRect(p)) THEN st
     ELSE IF pl.vy > 0
          THEN IF LandsOn(pl, p, prevPlayerY)
               THEN [ pl |-> [pl EXCEPT !.y = p.y - pl.height, !.vy = 0,
                                        !.isJumping = FALSE, !.onGround = TRUE,
                                        !.standingOnPlatform = i],
                      ps |-> IF p.type = "breakable" /\ ~p.isBroken /\ ~p.isBreaking
                             THEN [st.ps EXCEPT ![i].isBreaking = TRUE,
                                      ![i].breakingTimer = BREAKABLE_PLATFORM_BREAK_DELAY]
                             ELSE st.ps,
                      landed |-> i, bumped |-> st.bumped ]
               ELSE st
          ELSE IF pl.vy < 0
               THEN IF BumpsUnder(pl, p, prevPlayerY)
                    THEN [st EXCEPT !.pl = [pl EXCEPT !.y = p.y + p.height, !.vy = 0],
                                    !.bumped = i]
                    ELSE st
               ELSE st

RECURSIVE VerticalPassUpTo(_, _, _, _)
VerticalPassUpTo(pl, ps, prevPlayerY, k) ==
  IF k = 0 THEN [pl |-> pl, ps |-> ps, landed |-> 0, bumped |-> 0]
  ELSE LET before == VerticalPassUpTo(pl, ps, prevPlayerY, k - 1)
       IN IF Collidable(ps[k]) THEN VerticalStep(before, k, prevPlayerY) ELSE before

VerticalPass(pl, ps, prevPlayerY) == VerticalPassUpTo(pl, ps, prevPlayerY, Len(ps))

\* line 617-618
StillOn(pl, p) ==
  LET pFeetY == pl.y + pl.height
  IN /\ pl.x + pl.width > p.x /\ pl.x < p.x + p.width
     /\ pFeetY >= p.y /\ pFeetY < p.y + Abs(pl.vy) + GRAVITY + ONE

\* lines 612-627 without the proximity test and the re-snap of 614-621
Reconcile_neverStillOn(pl, ps) ==
  IF ~pl.onGround /\ pl.standingOnPlatform # 0
  THEN [pl EXCEPT !.standingOnPlatform = 0]
  ELSE pl

\* lines 612-627
Reconcile(pl, ps) ==
  IF ~pl.onGround /\ pl.standingOnPlatform # 0
  THEN LET p == ps[pl.standingOnPlatform]
       IN IF ~Vanished(p) /\ StillOn(pl, p)
          THEN [pl EXCEPT !.y = p.y - pl.height, !.vy = 0, !.isJumping = FALSE,
                          !.onGround = TRUE]
          ELSE [pl EXCEPT !.standingOnPlatform = 0]
  ELSE pl

RECURSIVE MaxBottom(_, _)
MaxBottom(ps, k) ==
  IF k = 0 THEN LOGICAL_GAME_HEIGHT
  ELSE LET m == MaxBottom(ps, k - 1)
           b == Plus(ps[k].initialY, DEFAULT_PLATFORM_HEIGHT)
       IN IF m = NaN \/ b = NaN THEN NaN ELSE IF b > m THEN b ELSE m

\* lines 632-635 without the margin of 200 below the lowest platform
gameWorldMaxY_noMargin(ps) == MaxBottom(ps, Len(ps))

\* lines 632-635 (parsedData.platforms[k].y is platform object k's initialY)
gameWorldMaxY(ps) == Plus(MaxBottom(ps, Len(ps)), DEATH_MARGIN)

\* lines 394 and 646: find(p => p.type === 'standard' || !p.type) || [0]
FirstStandard(ps) ==
  IF \E i \in 1..Len(ps) : ps[i].type = "standard"
  THEN CHOOSE i \in 1..Len(ps) :
         ps[i].type = "standard" /\ \A j \in 1..(i - 1) : ps[j].type # "standard"
  ELSE 1

\* line 636
Dies(pl, ps) == Less(gameWorldMaxY(ps), pl.y)

\* lines 645-649: where the player respawns
RespawnPoint(pl, ps) ==
  IF Len(ps) > 0
  THEN [x |-> ps[FirstStandard(ps)].x + ps[FirstStandard(ps)].width \div 2
                - pl.width \div 2,
        y |-> ps[FirstStandard(ps)].y - PLAYER_HEIGHT]
  ELSE [x |-> 50 * Scale, y |-> 100 * Scale]

\* lines 645-651 with a respawn that stands the player on the respawn platform
Respawn_ontoPlatform(pl, ps) ==
  [pl EXCEPT !.x = RespawnPoint(pl, ps).x,
             !.y = RespawnPoint(pl, ps).y,
             !.vy = 0, !.isJumping = FALSE, !.onGround = TRUE,
             !.standingOnPlatform = IF Len(ps) > 0 THEN FirstStandard(ps) ELSE 0,
             !.height = PLAYER_HEIGHT, !.isCrouching = FALSE]

\* lines 645-651
Respawn(pl, ps) ==
  [pl EXCEPT !.x = RespawnPoint(pl, ps).x,
             !.y = RespawnPoint(pl, ps).y,
             !.vy = 0, !.isJumping = FALSE, !.onGround = FALSE,
             !.standingOnPlatform = 0,
             !.height = PLAYER_HEIGHT, !.isCrouching = FALSE]

\* the completion check without the test of the last platform
Completes_anyPlatform(pl, last, latch, canRequest) ==
  /\ last # 0 /\ pl.standingOnPlatform # 0 /\ pl.onGround
  /\ ~latch /\ canRequest

\* lines 654-655; canRequest is onRequestNewLevel && !isLoading of the closure
Completes(pl, last, latch, canRequest) ==
  /\ last # 0 /\ pl.standingOnPlatform = last /\ pl.onGround
  /\ ~latch /\ canRequest

(***************************************************************************)
(* One run of gameLoop past its guards, as a function of the state it      *)
(* reads.  The result holds the player and the platforms it leaves, and    *)
(* what happened: died (setDeathCount), completed (onRequestNewLevel),     *)
(* landed / bumped (the platform of the vertical pass's landing / bump).   *)
(***************************************************************************)
AfterMotion(pl, ps1, keys) ==
  Gravity(Jump(HorizontalInput(CrouchTransition(Carry(pl, ps1), ps1, keys), keys), keys))

\* lines 559-586: m is the player after lines 516-557; prevPlayerY = m.y (line 559)
MoveAndPushOut(m, ps1) ==
  [pl |-> HorizontalPass(ClearGround(Integrate(m), ps1), ps1, m.y), prevPlayerY |-> m.y]

\* lines 516-586: the player entering the vertical pass, and prevPlayerY
BeforeVertical(pl, ps1, keys) == MoveAndPushOut(AfterMotion(pl, ps1, keys), ps1)

\* lines 588-610, from the player and prevPlayerY that lines 516-586 leave
VerticalFrom(b, ps1) == VerticalPass(b.pl, ps1, b.prevPlayerY)

\* lines 612-627, on the result of the vertical pass
Reconciled(v) == [v EXCEPT !.pl = Reconcile(v.pl, v.ps)]

\* lines 516-627: the player's part of the tick, on the platforms as updated
PlayerStep(pl, ps1, keys) == Reconciled(VerticalFrom(BeforeVertical(pl, ps1, keys), ps1))

\* lines 507 and 516-627: ps are the platforms before the forEach, ps1 after it
PlayerStepOn(pl, ps, ps1, keys) == PlayerStep(DropFromBroken(pl, ps, ps1), ps1, keys)

AfterCollision(pl, ps, keys) == PlayerStepOn(pl, ps, UpdatePlatforms(ps), keys)

\* lines 629-663: the death and the completion checks, on the result c of lines 450-627
EndOfTick(c, last, latch, canRequest) ==
  LET died == Dies(c.pl, c.ps)
      pl2 == IF died THEN Respawn(c.pl, c.ps) ELSE c.pl
  IN [ pl |-> pl2, ps |-> c.ps, died |-> died,
       completed |-> Completes(pl2, last, latch, canRequest),
       landed |-> c.landed, bumped |-> c.bumped ]

gameLoopResult(pl, ps, keys, last, latch, canRequest) ==
  EndOfTick(AfterCollision(pl, ps, keys), last, latch, canRequest)

(***************************************************************************)
(* The camera (gameContainer.pivot).  The offset is kept to 1/Scale pixel: *)
(* the step of a tick is the fraction of the remaining distance, truncated *)
(* toward zero.                                                            *)
(***************************************************************************)
\* CAMERA_LERP_FACTOR = 0.1, in tenths
CAMERA_LERP_FACTOR == 1
CROUCH_CAMERA_VIEW_ADJUST_WORLD == 20 * Scale
LOGICAL_GAME_WIDTH == 400 * Scale

NoCamera == [x |-> 0, y |-> 0]

\* lines 414-415
CentreOf(pl) == [x |-> pl.x + pl.width \div 2, y |-> pl.y + pl.height \div 2]

\* a * CAMERA_LERP_FACTOR on doubles
TimesLerpFactor(a) == IF isFinite(a) THEN Trunc(a * CAMERA_LERP_FACTOR, 10) ELSE a

\* lines 666-670
CameraTarget(pl) ==
  [x |-> Plus(pl.x, pl.width \div 2),
   y |-> IF pl.isCrouching
         THEN Plus(pl.y, PLAYER_CROUCH_HEIGHT \div 2 + CROUCH_CAMERA_VIEW_ADJUST_WORLD)
         ELSE Plus(pl.y, pl.height \div 2)]

\* lines 682-683 with a camera that is put on its target
Lerp_ontoTarget(from, to) == to

\* lines 682-683: pivot += (target - pivot) * CAMERA_LERP_FACTOR
Lerp(from, to) == Plus(from, TimesLerpFactor(Minus(to, from)))

\* lines 672-673
NotFinite(cam, target) ==
  ~isFinite(cam.x) \/ ~isFinite(cam.y) \/ ~isFinite(target.x) \/ ~isFinite(target.y)

\* lines 674-680
SafeDefault(pl) ==
  IF isFinite(pl.x) /\ isFinite(pl.y)
  THEN [x |-> Plus(pl.x, pl.width \div 2), y |-> Plus(pl.y, pl.height \div 2)]
  ELSE [x |-> LOGICAL_GAME_WIDTH \div 2, y |-> LOGICAL_GAME_HEIGHT \div 2]

\* lines 666-687: the camera step when the test of line 665 passes
CameraStep(cam, pl) ==
  IF NotFinite(cam, CameraTarget(pl)) THEN SafeDefault(pl)
  ELSE [x |-> Lerp(cam.x, CameraTarget(pl).x), y |-> Lerp(cam.y, CameraTarget(pl).y)]

(***************************************************************************)
(* Bounds of the model                                                     *)
(***************************************************************************)
MaxInflight == 2
MaxLevel == 2
MaxDeaths == 2

\* the keys the player uses in the level built from payload k, and the ticks of
\* that level that are explored (0: no limit, the level's states are finitely many)
LevelKeys ==
  << {}, {"KeyD"}, {"Space", "KeyD"}, {"Space"}, {}, {"KeyS"}, {"KeyA", "KeyS"},
     {}, {}, {}, {}, {}, {}, {}, {}, {}, {}, {}, {},
     {"Space", "KeyS"}, {"KeyD", "KeyS"}, {"KeyA"}, {"KeyS"}, {"KeyD"}, {"Space"} >>

LevelTicks == << 0, 0, 0, 340, 620, 0, 24, 0, 0, 0, 0, 0, 0, 0, 0, 0, 0, 0, 12, 0, 0, 16, 120, 0, 200 >>

(***************************************************************************)
(* State                                                                   *)
(*  host       HomePage's state as set by its setters (gameStarted,        *)
(*             isLoadingLevel, levelCount, generatedLevel: a payload       *)
(*             number, 0 for null; fresh: setGeneratedLevel was given a    *)
(*             new object since the last render) and GameScreen's isPaused *)
(*  shown      the values of the last committed render, which the          *)
(*             closures (gameLoop, handleKeyDown, triggerLevelGeneration)  *)
(*             and the page read                                           *)
(*  inflight   the handleGenerateLevelAction calls not yet settled         *)
(*  app        pixiAppRef.current is set (ready); app.init is awaited;     *)
(*             hasScreen: app.screen has a positive width and height (the  *)
(*             canvas is resized to its container element, which may have  *)
(*             no size)                                                    *)
(*  tickerOn   gameLoop is registered on app.ticker                        *)
(*  camera     gameContainer.pivot, the world point shown at the centre of *)
(*             the screen ((0, 0) for a new container, and for none)       *)
(*  obs        what the last step did, if it was a run of gameLoop (and    *)
(*             the host's isLoadingLevel when it ran, and the order of its *)
(*             parts)                                                      *)
(*  inst       per level instance: calls of onRequestNewLevel (counted up  *)
(*             to 2), whether a tick ended grounded on the last platform,  *)
(*             the ticks run (counted in the levels with a tick limit) and *)
(*             per platform the ticks since the player landed on it while  *)
(*             it was an intact breakable (-1: no such landing in the last *)
(*             BREAK_DELAY + RESPAWN_DURATION ticks)                       *)
(***************************************************************************)
VARIABLES host, shown, inflight, app, tickerOn,
          player, platformObjects, lastPlatform, newLevelRequested, prevLevelId,
          keysPressed, deathCount, camera, obs, inst

vars == << host, shown, inflight, app, tickerOn,
           player, platformObjects, lastPlatform, newLevelRequested, prevLevelId,
           keysPressed, deathCount, camera, obs, inst >>

Idle ==
  [tick |-> FALSE, died |-> FALSE, completed |-> FALSE, landed |-> 0, bumped |-> 0,
   loading |-> FALSE, order |-> << >>]

NewInstance(n) ==
  [calls |-> 0, reached |-> FALSE, ticks |-> 0, age |-> [i \in 1..n |-> -1]]

\* useMemo parsedData (lines 167-172)
ParsedData(gameStarted, level) ==
  IF gameStarted /\ level # 0 THEN parseLevelData(Payloads[level]) ELSE NullData

\* line 382
RightEdge(p) == p.initialX + p.width

\* lines 383-386 with a test that also takes an equal right edge
RightmostStep_orEqual(ps, prev, n) ==
  IF prev = 0 \/ RightEdge(ps[n]) >= RightEdge(ps[prev]) THEN n ELSE prev

\* lines 383-386 for platform n, the candidate so far being platform prev
\* (0 while maxRightEdgeCoord is -Infinity)
RightmostStep(ps, prev, n) ==
  IF prev = 0 \/ RightEdge(ps[n]) > RightEdge(ps[prev]) THEN n ELSE prev

RECURSIVE RightmostUpTo(_, _)
\* lines 381-387: the forEach over the first n platforms
RightmostUpTo(ps, n) ==
  IF n = 0 THEN 0 ELSE RightmostStep(ps, RightmostUpTo(ps, n - 1), n)

\* lines 379-390: the platform lastPlatformRef is set to (0 for null)
Rightmost(ps) == RightmostUpTo(ps, Len(ps))

\* lines 337-377
BuildPlatforms(ds) == [i \in 1..Len(ds) |-> NewPlatform(ds[i])]

\* lines 392-404
SpawnPlayer(ps) ==
  LET firstPlatform == ps[FirstStandard(ps)]
  IN [ present |-> TRUE,
       x |-> firstPlatform.x + firstPlatform.width \div 2 - PLAYER_WIDTH \div 2,
       y |-> firstPlatform.y - PLAYER_HEIGHT, vx |-> 0, vy |-> 0,
       isJumping |-> FALSE, isCrouching |-> FALSE, onGround |-> FALSE,
       width |-> PLAYER_WIDTH, height |-> PLAYER_HEIGHT, standingOnPlatform |-> 0 ]

(***************************************************************************)
(* Initial states: the page as mounted (start screen) ...                  *)
(***************************************************************************)
Init ==
  /\ host = [gameStarted |-> FALSE, isLoadingLevel |-> FALSE, levelCount |-> 0,
             generatedLevel |-> 0, fresh |-> FALSE, isPaused |-> FALSE]
  /\ shown = [gameStarted |-> FALSE, isLoading |-> FALSE, levelId |-> 0,
              level |-> 0, isPaused |-> FALSE]
  /\ inflight = << >>
  /\ app = [ready |-> FALSE, initPending |-> FALSE, hasScreen |-> FALSE]
  /\ tickerOn = FALSE
  /\ player = NoPlayer
  /\ platformObjects = << >>
  /\ lastPlatform = 0
  /\ newLevelRequested = FALSE
  /\ prevLevelId = -1
  /\ keysPressed = {}
  /\ deathCount = 0
  /\ camera = NoCamera
  /\ obs = Idle
  /\ inst = NewInstance(Len(platformObjects))

(***************************************************************************)
(* ... and the game as it stands when level 1 of a new game, generated     *)
(* from payload k, has just been built (handleStartGame, render, app.init, *)
(* the request settles, render).  hasScreen tells whether the container   *)
(* element has a size; without one the camera step of a tick is skipped    *)
(* (line 665).                                                             *)
(***************************************************************************)
PlayingOn(k, hasScreen) ==
  /\ host = [gameStarted |-> TRUE, isLoadingLevel |-> FALSE, levelCount |-> 1,
             generatedLevel |-> k, fresh |-> FALSE, isPaused |-> FALSE]
  /\ shown = [gameStarted |-> TRUE, isLoading |-> FALSE, levelId |-> 1,
              level |-> k, isPaused |-> FALSE]
  /\ inflight = << >>
  /\ app = [ready |-> TRUE, initPending |-> FALSE, hasScreen |-> hasScreen]
  /\ tickerOn = TRUE
  /\ platformObjects = BuildPlatforms(parseLevelData(Payloads[k]).platforms)
  /\ player = SpawnPlayer(platformObjects)
  /\ lastPlatform = Rightmost(platformObjects)
  /\ newLevelRequested = FALSE
  /\ prevLevelId = 1
  /\ keysPressed = {}
  /\ deathCount = 0
  /\ camera = CentreOf(player)
  /\ obs = Idle
  /\ inst = NewInstance(Len(platformObjects))

\* in a container element without a size
Playing(k) == PlayingOn(k, FALSE)

(***************************************************************************)
(* HomePage                                                                *)
(***************************************************************************)
\* a setter has been called since the last committed render; the page's buttons and
\* forms are used on a committed render (React flushes a click's updates at once)
Pending ==
  \/ host.gameStarted # shown.gameStarted
  \/ host.isLoadingLevel # shown.isLoading
  \/ host.levelCount # shown.levelId
  \/ host.isPaused # shown.isPaused
  \/ host.fresh \/ host.generatedLevel # shown.level

Request(kind, target) == [kind |-> kind, target |-> target]

\* triggerLevelGeneration up to its await; the closure reads the shown levelCount
triggerLevelGeneration(h, isInitialStart) ==
  [ host |-> [h EXCEPT !.isLoadingLevel = TRUE],
    request |-> Request(IF isInitialStart THEN "start" ELSE "auto",
                        IF isInitialStart THEN 1 ELSE shown.levelId + 1) ]

\* the Start Game button of the start screen
handleStartGame ==
  /\ ~shown.gameStarted /\ ~Pending
  /\ Len(inflight) < MaxInflight
  /\ LET t == triggerLevelGeneration(
                [host EXCEPT !.gameStarted = TRUE, !.levelCount = 0], TRUE)
     IN /\ host' = t.host
        /\ inflight' = Append(inflight, t.request)
  /\ obs' = Idle
  /\ UNCHANGED << shown, app, tickerOn, player, platformObjects, lastPlatform,
                  newLevelRequested, prevLevelId, keysPressed, deathCount, camera, inst >>

\* the pause button (setIsPaused(true)) and Resume Game / closing the dialog
Pause ==
  /\ shown.gameStarted /\ ~shown.isPaused /\ ~Pending
  /\ host' = [host EXCEPT !.isPaused = TRUE]
  /\ obs' = Idle
  /\ UNCHANGED << shown, inflight, app, tickerOn, player, platformObjects, lastPlatform,
                  newLevelRequested, prevLevelId, keysPressed, deathCount, camera, inst >>

Resume ==
  /\ shown.gameStarted /\ shown.isPaused /\ ~Pending
  /\ host' = [host EXCEPT !.isPaused = FALSE]
  /\ obs' = Idle
  /\ UNCHANGED << shown, inflight, app, tickerOn, player, platformObjects, lastPlatform,
                  newLevelRequested, prevLevelId, keysPressed, deathCount, camera, inst >>

\* the form of the pause dialog: handlePopoverFormSubmit, then
\* processManualLevelGeneration up to its await
handlePopoverFormSubmit ==
  /\ shown.gameStarted /\ shown.isPaused /\ ~Pending
  /\ Len(inflight) < MaxInflight
  /\ host' = [host EXCEPT !.isPaused = FALSE, !.isLoadingLevel = TRUE, !.levelCount = 0]
  /\ inflight' = Append(inflight, Request("manual", 1))
  /\ obs' = Idle
  /\ UNCHANGED << shown, app, tickerOn, player, platformObjects, lastPlatform,
                  newLevelRequested, prevLevelId, keysPressed, deathCount, camera, inst >>

RemoveAt(s, i) == [j \in 1..(Len(s) - 1) |-> IF j < i THEN s[j] ELSE s[j + 1]]

\* setGeneratedLevel(null)
ClearLevel(h) == [h EXCEPT !.generatedLevel = 0, !.fresh = FALSE]

\* the continuation of triggerLevelGeneration / processManualLevelGeneration after
\* the await: level = 0 is the error result (or a thrown error), else the payload
Settle(h, req, level) ==
  LET h1 == IF level = 0
            THEN IF req.kind = "start" THEN [ClearLevel(h) EXCEPT !.gameStarted = FALSE]
                 ELSE ClearLevel(h)
            ELSE [h EXCEPT !.generatedLevel = level, !.fresh = TRUE,
                           !.levelCount = req.target]
      h2 == [h1 EXCEPT !.isLoadingLevel = FALSE]
  IN IF req.kind = "manual" THEN [h2 EXCEPT !.isPaused = FALSE] ELSE h2

\* a request is a network round trip: it settles on a committed render
RequestSettles(i, level) ==
  /\ i \in 1..Len(inflight) /\ ~Pending
  /\ level # 0 => inflight[i].target <= MaxLevel
  /\ host' = Settle(host, inflight[i], level)
  /\ inflight' = RemoveAt(inflight, i)
  /\ obs' = Idle
  /\ UNCHANGED << shown, app, tickerOn, player, platformObjects, lastPlatform,
                  newLevelRequested, prevLevelId, keysPressed, deathCount, camera, inst >>

\* the awaited app.init of the PIXI effect completes (line 273)
AppInit ==
  /\ app.initPending
  /\ \E hasScreen \in BOOLEAN :
       app' = [ready |-> TRUE, initPending |-> FALSE, hasScreen |-> hasScreen]
  /\ camera' = NoCamera
  /\ obs' = Idle
  /\ UNCHANGED << host, shown, inflight, tickerOn, player, platformObjects, lastPlatform,
                  newLevelRequested, prevLevelId, keysPressed, deathCount, inst >>

(***************************************************************************)
(* GameScreen: a committed render and its effects                          *)
(***************************************************************************)
\* lines 198-232; previousLevelId is -1 for undefined
LevelIdEffect(gameStarted, currentLevelId, previousLevelId, latch, deaths) ==
  IF ~gameStarted
  THEN [latch |-> FALSE, prev |-> previousLevelId, deaths |-> 0]
  ELSE [ latch |-> IF previousLevelId # currentLevelId /\ currentLevelId > 0 THEN FALSE
                   ELSE IF currentLevelId = 0
                           /\ (previousLevelId = -1 \/ previousLevelId # 0) THEN FALSE
                   ELSE latch,
         prev |-> currentLevelId,
         deaths |-> IF currentLevelId = 0
                       \/ (currentLevelId = 1
                           /\ (previousLevelId = 0 \/ previousLevelId = -1))
                    THEN 0 ELSE deaths ]

\* lines 235-313: the cleanup of the last run, then the effect, when gameStarted changed
PixiEffect(a, gameStarted) ==
  IF ~gameStarted THEN [a EXCEPT !.ready = FALSE]
  ELSE IF a.ready THEN a
  ELSE [a EXCEPT !.initPending = TRUE]

\* lines 691-719
TickerEffect(a, gameStarted, isLoading, isPaused) ==
  gameStarted /\ a.ready /\ ~isLoading /\ ~isPaused

\* page.tsx (part_002 lines 261-268): the effect on gameStarted
HomeEffect(h, gsChanged) ==
  IF gsChanged /\ ~h.gameStarted
  THEN [h EXCEPT !.isLoadingLevel = FALSE, !.generatedLevel = 0, !.levelCount = 0,
                 !.fresh = FALSE]
  ELSE [h EXCEPT !.fresh = FALSE]

Render ==
  /\ Pending
  /\ LET gs == host.gameStarted
         gsChanged == gs # shown.gameStarted
         outputChanged == host.fresh \/ host.generatedLevel # shown.level
         oldParsed == ParsedData(shown.gameStarted, shown.level)
         parsedData == ParsedData(gs, host.generatedLevel)
         parsedChanged == (outputChanged \/ gsChanged) /\ (oldParsed.ok \/ parsedData.ok)
         runIdEffect == host.levelCount # shown.levelId \/ gsChanged \/ parsedChanged
         e == IF runIdEffect
              THEN LevelIdEffect(gs, host.levelCount, prevLevelId, newLevelRequested,
                                 deathCount)
              ELSE [latch |-> newLevelRequested, prev |-> prevLevelId,
                    deaths |-> deathCount]
         destroyed == gsChanged /\ ~gs /\ app.ready
         app1 == IF gsChanged THEN PixiEffect(app, gs) ELSE app
         \* lines 316-425: the level build effect
         runBuild == parsedChanged \/ gsChanged
         torn == (runBuild /\ app1.ready) \/ destroyed
         builds == runBuild /\ gs /\ app1.ready /\ parsedData.ok
                   /\ Len(parsedData.platforms) > 0
         ps1 == IF builds THEN BuildPlatforms(parsedData.platforms)
                ELSE IF torn THEN << >> ELSE platformObjects
     IN /\ shown' = [gameStarted |-> gs, isLoading |-> host.isLoadingLevel,
                     levelId |-> host.levelCount, level |-> host.generatedLevel,
                     isPaused |-> host.isPaused]
        /\ host' = HomeEffect(host, gsChanged)
        /\ newLevelRequested' = e.latch
        /\ prevLevelId' = e.prev
        /\ deathCount' = e.deaths
        /\ app' = app1
        /\ platformObjects' = ps1
        /\ lastPlatform' = IF builds THEN Rightmost(ps1)
                           ELSE IF torn THEN 0 ELSE lastPlatform
        /\ player' = IF builds THEN SpawnPlayer(ps1)
                     ELSE IF torn THEN NoPlayer ELSE player
        /\ inst' = IF builds \/ torn THEN NewInstance(Len(ps1)) ELSE inst
        /\ camera' = IF builds THEN CentreOf(SpawnPlayer(ps1))
                     ELSE IF destroyed THEN NoCamera ELSE camera
        /\ tickerOn' = TickerEffect(app1, gs, host.isLoadingLevel, host.isPaused)
  /\ obs' = Idle
  /\ UNCHANGED << inflight, keysPressed >>

(***************************************************************************)
(* gameLoop, called by the ticker                                          *)
(***************************************************************************)
\* the guards of gameLoop without the tests of the player (line 434) and of the
\* level description (line 436)
Runs_onlyHostGuards ==
  /\ tickerOn
  /\ shown.gameStarted /\ app.ready
  /\ ~shown.isLoading /\ ~shown.isPaused

\* gameLoop left on the ticker by the ticker effect, and without the tests of
\* isLoading and isPaused of line 434
Runs_ignoresPause ==
  /\ shown.gameStarted /\ player.present /\ app.ready
  /\ ParsedData(shown.gameStarted, shown.level).ok
  /\ Len(ParsedData(shown.gameStarted, shown.level).platforms) > 0

\* lines 434-439: the guards of gameLoop, read from its closure
Runs ==
  /\ tickerOn
  /\ shown.gameStarted /\ player.present /\ app.ready
  /\ ~shown.isLoading /\ ~shown.isPaused
  /\ LET parsedData == ParsedData(shown.gameStarted, shown.level)
     IN parsedData.ok /\ Len(parsedData.platforms) > 0

Outcome ==
  gameLoopResult(player, platformObjects, keysPressed, lastPlatform,
                 newLevelRequested, ~shown.isLoading)

AtEnd(pl) == lastPlatform # 0 /\ pl.onGround /\ pl.standingOnPlatform = lastPlatform

\* the vertical pass lands the player on platform i, a breakable that is neither
\* broken nor breaking when the pass reaches it (lines 593-603)
LandsOnIntact(ps1, r, i) ==
  /\ r.landed = i
  /\ ps1[i].type = "breakable" /\ ~ps1[i].isBroken /\ ~ps1[i].isBreaking

\* ps1 are the platforms as the forEach of the tick leaves them
NextAge(age, ps1, r) ==
  [i \in 1..Len(age) |->
     IF LandsOnIntact(ps1, r, i) THEN 0
     ELSE IF age[i] >= 0
             /\ age[i] < BREAKABLE_PLATFORM_BREAK_DELAY + BREAKABLE_PLATFORM_RESPAWN_DURATION
          THEN age[i] + 1
          ELSE -1]

TickLimit == LevelTicks[shown.level]

\* the parts of one run of gameLoop in the order of its statements: the
\* platform forEach (450-514), the player (516-635), the death branch's
\* setDeathCount (642), the completion branch's onRequestNewLevel (661), the
\* camera (665-688, when the screen has a size)
StepsOf(r, hasScreen) ==
  << "platforms", "player" >>
    \o (IF r.died THEN << "setDeathCount" >> ELSE << >>)
    \o (IF r.completed THEN << "onRequestNewLevel" >> ELSE << >>)
    \o (IF hasScreen THEN << "camera" >> ELSE << >>)

\* the writes of one run of gameLoop: r is its outcome, t the call of
\* onRequestNewLevel (line 661) that a completing run makes
Commit(r, t) ==
  /\ player' = r.pl
  /\ platformObjects' = r.ps
  /\ deathCount' = IF r.died THEN deathCount + 1 ELSE deathCount
  /\ newLevelRequested' = (newLevelRequested \/ r.completed)
  /\ host' = IF r.completed THEN t.host ELSE host
  /\ inflight' = IF r.completed THEN Append(inflight, t.request) ELSE inflight
  /\ camera' = IF app.hasScreen THEN CameraStep(camera, r.pl) ELSE camera
  /\ obs' = [tick |-> TRUE, died |-> r.died, completed |-> r.completed,
             landed |-> r.landed, bumped |-> r.bumped,
             loading |-> host.isLoadingLevel,
             order |-> StepsOf(r, app.hasScreen)]

\* the bookkeeping of the level instance
Record(r, ps1) ==
  inst' = [calls |-> IF r.completed /\ inst.calls < 2 THEN inst.calls + 1
                     ELSE inst.calls,
           reached |-> inst.reached \/ AtEnd(r.pl),
           ticks |-> IF TickLimit = 0 THEN 0 ELSE inst.ticks + 1,
           age |-> NextAge(inst.age, ps1, r)]

RunLoop(r) ==
  /\ Commit(r, triggerLevelGeneration(host, FALSE))
  /\ Record(r, UpdatePlatforms(platformObjects))

gameLoop ==
  /\ Runs
  /\ deathCount < MaxDeaths
  /\ TickLimit = 0 \/ inst.ticks < TickLimit
  /\ RunLoop(Outcome)
  /\ UNCHANGED << shown, app, tickerOn, lastPlatform, prevLevelId, keysPressed >>

\* lines 692-698 and the touch buttons
handleKeyDown(code) ==
  /\ shown.gameStarted /\ ~shown.isLoading /\ ~shown.isPaused
  /\ code \notin keysPressed
  /\ keysPressed' = keysPressed \cup {code}
  /\ obs' = Idle
  /\ UNCHANGED << host, shown, inflight, app, tickerOn, player, platformObjects,
                  lastPlatform, newLevelRequested, prevLevelId, deathCount, camera, inst >>

handleKeyUp(code) ==
  /\ code \in keysPressed
  /\ keysPressed' = keysPressed \ {code}
  /\ obs' = Idle
  /\ UNCHANGED << host, shown, inflight, app, tickerOn, player, platformObjects,
                  lastPlatform, newLevelRequested, prevLevelId, deathCount, camera, inst >>

(***************************************************************************)
(* Specifications                                                          *)
(***************************************************************************)
HostLevels == {1, 2}

\* a request settles with an error (0) or with one of the payloads of levels
SettlesWith(levels) ==
  \E i \in 1..MaxInflight, level \in {0} \cup levels : RequestSettles(i, level)

Settles == SettlesWith(HostLevels)

Next ==
  \/ handleStartGame \/ AppInit \/ Render \/ Settles
  \/ Pause \/ Resume \/ handlePopoverFormSubmit
  \/ gameLoop

Spec == Init /\ [][Next]_vars

\* one level instance being played: the ticks and the player's keys
Keys == LevelKeys[shown.level]

KeyDown == \E code \in Keys : handleKeyDown(code)

KeyUp == \E code \in Keys : handleKeyUp(code)

NextPlay == gameLoop \/ KeyDown \/ KeyUp

WalkLevels == {2, 3, 20}

InitWalk == \E k \in WalkLevels : Playing(k)

SpecWalk == InitWalk /\ [][NextPlay]_vars

ShiftLevels == {4, 5, 6, 7, 23, 25}

InitShift == \E k \in ShiftLevels : Playing(k)

SpecShift == InitShift /\ [][NextPlay]_vars

\* the host handing the component payloads of every shape that the action of
\* actions.ts lets through (a string that is not blank)
\* the game on a screen with a size, in a level with one platform to walk off
\* and to crouch on; a key that is pressed stays pressed
CameraLevels == {21}

InitCamera == \E k \in CameraLevels : PlayingOn(k, TRUE)

NextCamera == gameLoop \/ KeyDown

SpecCamera == InitCamera /\ [][NextCamera]_vars

\* the game on a screen with a size, in a level with two walls across the
\* player's way, each as wide as a double allows: one from the far left to
\* the origin, over the spawn point, and one from the origin to the far right
FarLevels == {22}

InitFar == \E k \in FarLevels : PlayingOn(k, TRUE)

SpecFar == InitFar /\ [][NextPlay]_vars

\* a level with a descriptor that has no y, played for as long as the ticker
\* runs
FallLevels == {24}

InitFall == \E k \in FallLevels : Playing(k)

\* a key that is pressed stays pressed
NextFall == gameLoop \/ KeyDown

SpecFall == InitFall /\ [][NextFall]_vars

LoadLevels == {1, 8, 9, 10, 11, 12, 13, 14, 18, 19}

SettlesLoad == SettlesWith(LoadLevels)

NextLoad ==
  \/ handleStartGame \/ AppInit \/ Render \/ SettlesLoad
  \/ Pause \/ Resume \/ handlePopoverFormSubmit
  \/ gameLoop

SpecLoad == Init /\ [][NextLoad]_vars

\* the component as it stands when the first request of a new game has settled
\* with levelOutput = payload k and the render that parses it is due
\* (handleStartGame, render, app.init, the request settles)
Given(k) ==
  /\ host = [gameStarted |-> TRUE, isLoadingLevel |-> FALSE, levelCount |-> 1,
             generatedLevel |-> k, fresh |-> TRUE, isPaused |-> FALSE]
  /\ shown = [gameStarted |-> TRUE, isLoading |-> TRUE, levelId |-> 0,
              level |-> 0, isPaused |-> FALSE]
  /\ inflight = << >>
  /\ app = [ready |-> TRUE, initPending |-> FALSE, hasScreen |-> TRUE]
  /\ tickerOn = FALSE
  /\ player = NoPlayer
  /\ platformObjects = << >>
  /\ lastPlatform = 0
  /\ newLevelRequested = FALSE
  /\ prevLevelId = 0
  /\ keysPressed = {}
  /\ deathCount = 0
  /\ camera = NoCamera
  /\ obs = Idle
  /\ inst = NewInstance(0)

\* parseLevelData on every levelData: the prop is any string, or undefined
ParseInputs == 1..Len(Payloads)

InitParse == \E k \in ParseInputs : Given(k)

NextParse == Render \/ gameLoop \/ Pause \/ Resume

SpecParse == InitParse /\ [][NextParse]_vars

(***************************************************************************)
(* The completion signal (LevelCompleted is the call of onRequestNewLevel) *)
(***************************************************************************)
\* C1 (as stated): in every level instance onRequestNewLevel is called exactly
\* once, in the first tick that ends with the player grounded on the last
\* platform: no call before such a tick, one call once there was one.
C1_ExactlyOncePerInstance ==
  inst.calls = (IF inst.reached THEN 1 ELSE 0)

\* C2: a tick calls onRequestNewLevel only if it ends with the player onGround and
\* standing on the level's last platform, and only if the host's loading flag was
\* not set when the tick ran.
C2_CompletionOnlyAtRestOnLast ==
  (obs.tick /\ obs.completed) =>
    /\ player.onGround
    /\ lastPlatform # 0 /\ player.standingOnPlatform = lastPlatform
    /\ ~obs.loading

\* a tick has just called onRequestNewLevel, in a level of the host
C2_Witness ==
  /\ obs.tick /\ obs.completed /\ shown.levelId >= 1
  /\ player.standingOnPlatform = lastPlatform /\ Len(inflight) >= 1

\* C3 (as stated): every level instance starts with the completion latch cleared:
\* once a tick of the instance has ended with the player grounded on its last
\* platform, onRequestNewLevel has been called in that instance.
C3_LatchClearedPerInstance ==
  inst.reached => inst.calls >= 1

(***************************************************************************)
(* The tick about to run, as a function of the state: the platforms after  *)
(* the forEach, the player as the forEach leaves it, the player entering   *)
(* the vertical pass.                                                      *)
(***************************************************************************)
Updated == UpdatePlatforms(platformObjects)

Dropped == DropFromBroken(player, platformObjects, Updated)

EnteringVertical == BeforeVertical(Dropped, Updated, keysPressed)

\* solid as the data model defines it
Solid(p) ==
  /\ ~(p.type = "timed" /\ ~p.isVisible)
  /\ ~(p.type = "breakable" /\ p.isBroken)
  /\ ~(p.type = "breakable" /\ p.isBreaking /\ p.breakingTimer <= 0)

Hidden(p) == p.type = "timed" /\ ~p.isVisible

Oscillator(p) == p.type \in {"mobile", "vertical_mobile"}

First(S) == CHOOSE i \in S : \A j \in S : i <= j

(***************************************************************************)
(* Death and respawn                                                       *)
(***************************************************************************)
Respawned ==
  LET p == platformObjects[FirstStandard(platformObjects)]
  IN /\ player.x = p.x + p.width \div 2 - PLAYER_WIDTH \div 2
     /\ player.y = p.y - PLAYER_HEIGHT
     /\ player.vy = 0 /\ player.height = PLAYER_HEIGHT
     /\ ~player.isJumping /\ ~player.isCrouching /\ ~player.onGround
     /\ player.standingOnPlatform = 0

\* C4 (as stated): a tick in which the player's y after collision resolution
\* exceeds the death boundary ends with the player on top of and centred on the
\* first standard platform, velocityX = 0 and velocityY = 0, full height, not
\* jumping, crouching or grounded, standingOn null, and the death counter
\* incremented by exactly one.
C4_RespawnWithinTheTick ==
  [][(obs'.tick /\ obs'.died) =>
       (Respawned' /\ player'.vx = 0 /\ deathCount' = deathCount + 1)]_vars

(***************************************************************************)
(* Breakable platforms                                                     *)
(***************************************************************************)
\* C5: a breakable on which the player landed while it was intact is solid and
\* visible for the 30 ticks from the landing, is broken (not solid, invisible)
\* from the 30th tick after the landing to the 329th, and is intact, solid and
\* visible at the 330th, whatever the player does meanwhile.
C5_BreakableLifeCycle ==
  \A i \in 1..Len(platformObjects) :
    LET p == platformObjects[i]
        a == inst.age[i]
    IN /\ (a >= 0 /\ a < 30) => (~p.isBroken /\ p.spriteVisible /\ Collidable(p))
       /\ (a >= 30 /\ a < 330) => (p.isBroken /\ ~p.spriteVisible /\ ~Collidable(p))
       /\ a = 330 => (/\ ~p.isBroken /\ ~p.isBreaking
                      /\ p.spriteVisible /\ Collidable(p))

\* a breakable is intact again at the 330th tick after the landing
C5_Witness ==
  \E i \in 1..Len(platformObjects) :
    /\ inst.age[i] = 330 /\ platformObjects[i].type = "breakable"
    /\ ~platformObjects[i].isBroken

(***************************************************************************)
(* Oscillators                                                             *)
(***************************************************************************)
\* C6 (as stated): no oscillator's rectangle overlaps, at the end of a tick, the
\* rectangle of another platform that is solid at the end of that tick.
C6_NoOscillatorOverlap ==
  \A i \in 1..Len(platformObjects), j \in 1..Len(platformObjects) :
    (i # j /\ Oscillator(platformObjects[i]) /\ Solid(platformObjects[j]))
      => ~checkCollision(PlatRect(platformObjects[i]), PlatRect(platformObjects[j]))

(***************************************************************************)
(* Hidden timed platforms                                                  *)
(***************************************************************************)
\* the platforms with platform j taken off the stage
OffStage(ps, j) ==
  [ps EXCEPT ![j].x = @ - 100000 * Scale, ![j].y = @ - 100000 * Scale]

SameButPlace(a, b, j) ==
  /\ a.pl = b.pl /\ a.landed = b.landed /\ a.bumped = b.bumped
  /\ a.ps = OffStage(b.ps, j)

\* C7: a timed platform whose visible flag is false takes no part in the tick:
\* the player's part of the tick (uncrouch test, horizontal and vertical pass,
\* reconciliation) gives the same player whether the platform is where it is or
\* off the stage, and so does the step of every oscillator.
C7_HiddenTimedTakesNoPart ==
  Runs =>
    /\ \A j \in 1..Len(Updated) :
         Hidden(Updated[j]) =>
           SameButPlace(PlayerStep(Dropped, OffStage(Updated, j), keysPressed),
                        PlayerStep(Dropped, Updated, keysPressed), j)
    /\ \A i \in 1..Len(Updated), j \in 1..Len(Updated) :
         LET before == PlatformsAfter(platformObjects, i - 1)
         IN (i # j /\ Hidden(before[j])) =>
              StepPlatform(OffStage(before, j), i)[i] = StepPlatform(before, i)[i]

\* a tick has left the player's rectangle inside a hidden timed platform's
C7_Witness ==
  /\ obs.tick /\ player.present
  /\ \E j \in 1..Len(platformObjects) :
       /\ Hidden(platformObjects[j])
       /\ checkCollision(PlayerRect(player), PlatRect(platformObjects[j]))

(***************************************************************************)
(* Crouch                                                                  *)
(***************************************************************************)
\* C8 (as stated): in a tick in which the crouch key is not held, a crouched
\* player stays crouched if the full-height box on the same feet overlaps a
\* solid platform (a breakable counting down its break delay is solid), and is
\* back at full height with isCrouching false if it overlaps none.
C8_UncrouchOnlyWhenClear ==
  (Runs /\ player.isCrouching /\ ~CrouchKey(keysPressed)) =>
    LET pl == Carry(Dropped, Updated)
        box == Rect(pl.x, pl.y - (PLAYER_HEIGHT - PLAYER_CROUCH_HEIGHT),
                    pl.width, PLAYER_HEIGHT)
        blocked == \E i \in 1..Len(Updated) :
                     Solid(Updated[i]) /\ checkCollision(box, PlatRect(Updated[i]))
    IN IF blocked
       THEN Outcome.pl.isCrouching /\ Outcome.pl.height = PLAYER_CROUCH_HEIGHT
       ELSE ~Outcome.pl.isCrouching /\ Outcome.pl.height = PLAYER_HEIGHT

(***************************************************************************)
(* The vertical pass                                                       *)
(***************************************************************************)
Overlapped(i) ==
  /\ Collidable(Updated[i])
  /\ checkCollision(PlayerRect(EnteringVertical.pl), PlatRect(Updated[i]))

\* the platforms the player comes down on / comes up under
FromAbove ==
  {i \in 1..Len(Updated) :
     /\ Overlapped(i)
     /\ EnteringVertical.prevPlayerY + EnteringVertical.pl.height
          <= Updated[i].y + 1 * Scale}

FromBelow ==
  {i \in 1..Len(Updated) :
     /\ Overlapped(i)
     /\ EnteringVertical.prevPlayerY >= Updated[i].y + Updated[i].height - 1 * Scale}

Landed(r, i) ==
  /\ r.pl.onGround /\ r.pl.standingOnPlatform = i /\ r.pl.vy = 0
  /\ r.pl.y + r.pl.height = r.ps[i].y

Bumped(r, i) ==
  /\ ~r.pl.onGround /\ r.landed # i /\ r.pl.vy = 0
  /\ r.pl.y = r.ps[i].y + r.ps[i].height

\* C9 (as stated): a player moving down whose new rectangle overlaps a solid
\* platform, the previous bottom edge at most 1 below the platform's top, ends the
\* tick grounded on that platform, velocityY 0, bottom edge on its top; moving up
\* into it from below, the player is not grounded by it and ends with velocityY 0
\* and the top edge at the platform's bottom edge.
C9_LandsOnEveryPlatform ==
  Runs =>
    /\ EnteringVertical.pl.vy > 0 => \A i \in FromAbove : Landed(Outcome, i)
    /\ EnteringVertical.pl.vy < 0 => \A i \in FromBelow : Bumped(Outcome, i)

\* C9 (amended): of the platforms the player comes down on, the tick grounds the
\* player on the first in level order; of those the player comes up under, it
\* stops the player under the first in level order, and leaves it airborne.
C9_LandsOnFirstPlatform ==
  Runs =>
    /\ (EnteringVertical.pl.vy > 0 /\ FromAbove # {})
         => Landed(Outcome, First(FromAbove))
    /\ (EnteringVertical.pl.vy < 0 /\ FromBelow # {})
         => Bumped(Outcome, First(FromBelow))

\* the player is about to come up under two platforms at once
C9_Witness ==
  Runs /\ EnteringVertical.pl.vy < 0 /\ Cardinality(FromBelow) >= 2

(***************************************************************************)
(* Standing                                                                *)
(***************************************************************************)
\* C10: whenever the player's onGround flag is true (at the end of a tick, and
\* until the next), standingOn is a platform and that platform is solid: not a
\* hidden timed platform, not a broken or collapsed breakable.
C10_GroundedOnSolid ==
  (player.present /\ player.onGround) =>
    /\ player.standingOnPlatform # 0
    /\ Solid(platformObjects[player.standingOnPlatform])

\* the player stands on a breakable that is counting down, or on a timed platform
C10_Witness ==
  /\ obs.tick /\ player.onGround /\ player.standingOnPlatform # 0
  /\ platformObjects[player.standingOnPlatform].type \in {"timed", "breakable"}

\* C11 (as stated): at the end of every tick a player whose isCrouching flag is
\* true has onGround true: the player is never crouched while airborne.
C11_CrouchedOnlyOnGround ==
  (obs.tick /\ player.present /\ player.isCrouching) => player.onGround

(***************************************************************************)
(* parseLevelData                                                          *)
(***************************************************************************)
\* the payload of the committed render and what the useMemo made of it
ShownPayload == Payloads[shown.level]

ShownParsed == ParsedData(shown.gameStarted, shown.level)

Parsing == shown.gameStarted /\ shown.level # 0

\* C12 (as stated): an undefined, empty, blank or malformed payload yields the
\* 'no level' result, and every well-formed payload whose platforms field is
\* missing or is not an array yields a level description with no platforms.
C12_MissingFieldIsEmptyLevel ==
  Parsing =>
    /\ ShownPayload.text # "json" => ShownParsed = NullData
    /\ (ShownPayload.text = "json" /\ ShownPayload.field # "array")
         => (ShownParsed.ok /\ ShownParsed.platforms = << >>)

\* C12 (amended): an undefined, empty, blank or malformed payload yields the 'no
\* level' result, and so does a well-formed payload that denotes null, a number,
\* a string or a boolean; a well-formed payload that denotes an object or an
\* array and whose platforms field is missing or is not an array yields a level
\* description with no platforms.
C12_ParseIsTotal ==
  Parsing =>
    /\ ShownPayload.text # "json" => ShownParsed = NullData
    /\ (ShownPayload.text = "json" /\ ShownPayload.doc \in {"null", "primitive"})
         => ShownParsed = NullData
    /\ (ShownPayload.text = "json" /\ ShownPayload.doc \in {"object", "array"}
          /\ ShownPayload.field # "array")
         => (ShownParsed.ok /\ ShownParsed.platforms = << >>)

\* a payload whose platforms member is not an array has been parsed
C12_Witness ==
  /\ Parsing /\ ShownPayload.text = "json" /\ ShownPayload.field = "other"
  /\ ShownParsed.ok /\ ~player.present

\* C13 (as stated): every descriptor of a level description returned by parse
\* has numbers for x, y and width, and no platform object is built from a
\* descriptor that has not.
C13_OnlyNumericDescriptors ==
  Parsing =>
    /\ \A i \in 1..Len(ShownParsed.platforms) : ShownParsed.platforms[i].numeric
    /\ Len(platformObjects) = Len(ShownParsed.platforms)
         => \A i \in 1..Len(platformObjects) : ShownPayload.platforms[i].numeric

(***************************************************************************)
(* Degenerate levels                                                       *)
(***************************************************************************)
\* the committed render has no level description, or one without platforms
NoLevel == ~(ShownParsed.ok /\ Len(ShownParsed.platforms) > 0)

\* C14: while the loaded level has no platforms, or no level is loaded, no run
\* of gameLoop changes the player, the platforms or the camera, counts a death
\* or calls onRequestNewLevel.
C14_NoTickWithoutPlatforms ==
  [][(NoLevel /\ obs'.tick) =>
       /\ player' = player /\ platformObjects' = platformObjects
       /\ camera' = camera /\ deathCount' = deathCount
       /\ ~obs'.died /\ ~obs'.completed /\ inflight' = inflight]_vars

\* the ticker calls gameLoop on a level description without platforms
C14_Witness ==
  /\ tickerOn /\ shown.gameStarted /\ app.ready /\ ~shown.isLoading /\ ~shown.isPaused
  /\ shown.level # 0 /\ ShownParsed.ok /\ Len(ShownParsed.platforms) = 0

(***************************************************************************)
(* Pause and loading                                                       *)
(***************************************************************************)
\* what a tick reads and writes of the simulation
SimState ==
  << player, platformObjects, lastPlatform, camera, deathCount, newLevelRequested >>

\* the component shows the pause dialog or the loading overlay
Frozen == shown.isPaused \/ shown.isLoading

\* the step commits no other level description, level number or game
SameLevel ==
  /\ ~host.fresh /\ shown'.level = shown.level
  /\ shown'.levelId = shown.levelId /\ shown'.gameStarted = shown.gameStarted

\* a step of a pause / resume cycle: the pause button, Resume, or the render
\* that commits nothing but the pause flag
PauseStep ==
  /\ host' = [host EXCEPT !.isPaused = host'.isPaused]
  /\ shown' = [shown EXCEPT !.isPaused = shown'.isPaused]
  /\ host'.isPaused # host.isPaused \/ shown'.isPaused # shown.isPaused
  /\ inflight' = inflight

C16_LastPlatformIsFirstRightmost ==
  Len(platformObjects) > 0 =>
    /\ lastPlatform \in 1..Len(platformObjects)
    /\ \A j \in 1..Len(platformObjects) :
         RightEdge(platformObjects[j]) <= RightEdge(platformObjects[lastPlatform])
    /\ \A j \in 1..(lastPlatform - 1) :
         RightEdge(platformObjects[j]) < RightEdge(platformObjects[lastPlatform])

\* a level is built in which a later platform shares the greatest right edge
C16_Witness ==
  /\ shown.level = 3 /\ Len(platformObjects) = 4 /\ lastPlatform = 2
  /\ RightEdge(platformObjects[4]) = RightEdge(platformObjects[2])
  /\ inst.ticks = 0

(***************************************************************************)
(* Installing a level                                                      *)
(***************************************************************************)
\* the step is a render that commits a new level description with platforms to
\* a started game: a new levelOutput object, or another one than the last shown
Installs ==
  /\ shown'.gameStarted /\ shown'.level # 0
  /\ (host.fresh /\ ~host'.fresh) \/ shown'.level # shown.level
                                  \/ shown'.gameStarted # shown.gameStarted
  /\ Len(parseLevelData(Payloads[shown'.level]).platforms) > 0

\* platform object p is in the initial state of descriptor d
Initial(p, d) ==
  /\ p.x = d.x * Scale /\ p.y = d.y * Scale
  /\ p.initialX = p.x /\ p.initialY = p.y /\ p.width = d.width * Scale
  /\ p.type = d.type
  /\ p.currentSpeedX = 0 /\ p.currentSpeedY = 0
  /\ d.type = "mobile" => p.moveDirectionX = 1
  /\ d.type = "vertical_mobile" => p.moveDirectionY = 1
  /\ d.type = "timed" => (p.isVisible /\ p.timer = TIMED_PLATFORM_VISIBLE_DURATION)
  /\ ~p.isBroken /\ ~p.isBreaking /\ p.breakingTimer = 0 /\ p.respawnTimer = 0
  /\ p.spriteVisible

\* the player stands at the spawn point above platform object p
Spawned(pl, p) ==
  /\ pl.present
  /\ 2 * pl.x + PLAYER_WIDTH = 2 * p.x + p.width
  /\ pl.y + PLAYER_HEIGHT = p.y
  /\ pl.vx = 0 /\ pl.vy = 0 /\ pl.height = PLAYER_HEIGHT /\ pl.width = PLAYER_WIDTH
  /\ ~pl.isJumping /\ ~pl.isCrouching /\ ~pl.onGround /\ pl.standingOnPlatform = 0

\* C17: a render that installs a new level description leaves one platform
\* object per descriptor, each in its initial state, the player at the spawn
\* point of the first standard platform (else of the first platform) with no
\* velocity, full height, not jumping, not crouching, not on the ground and
\* standing on nothing, and the camera centred on the player.
C17_InstallResetsEverything ==
  [][Installs =>
       LET ds == parseLevelData(Payloads[shown'.level]).platforms
           std == {i \in 1..Len(ds) : ds[i].type = "standard"}
           first == IF std = {} THEN 1
                    ELSE CHOOSE i \in std : \A j \in std : i <= j
       IN /\ Len(platformObjects') = Len(ds)
          /\ \A i \in 1..Len(ds) : Initial(platformObjects'[i], ds[i])
          /\ Spawned(player', platformObjects'[first])
          /\ 2 * camera'.x = 2 * player'.x + player'.width
          /\ 2 * camera'.y = 2 * player'.y + player'.height]_vars

(***************************************************************************)
(* A breakable platform breaking under the player                          *)
(***************************************************************************)
\* the next run of gameLoop flips the breakable the player stands on to broken
Crumbles ==
  /\ Runs /\ player.onGround /\ player.standingOnPlatform # 0
  /\ BrokeNow(platformObjects, Updated, player.standingOnPlatform)

\* the player after lines 516-557 of the next run
Moved == AfterMotion(Dropped, Updated, keysPressed)

\* C18: in the tick that flips the breakable under the player to broken, the
\* player stands on nothing and is not on the ground after the platform update,
\* whatever keys are held no jump starts and the vertical velocity grows by
\* GRAVITY, and the tick does not end with the player standing on that platform.
C18_FallsInTheTickOfTheBreak ==
  [][Crumbles =>
       /\ Dropped.standingOnPlatform = 0 /\ ~Dropped.onGround
       /\ ~JumpStarts(HorizontalInput(
              CrouchTransition(Carry(Dropped, Updated), Updated, keysPressed),
              keysPressed), keysPressed)
       /\ Moved.vy = player.vy + GRAVITY /\ Moved.vy > player.vy
       /\ ~Moved.onGround /\ Moved.standingOnPlatform = 0
       /\ Moved.isJumping = player.isJumping /\ ~Moved.isCrouching
       /\ obs'.tick =>
            /\ player'.standingOnPlatform # player.standingOnPlatform
            /\ platformObjects'[player.standingOnPlatform].isBroken
            /\ player'.onGround => player'.standingOnPlatform # 0]_vars

\* a tick has just broken the platform under the player while the jump key was
\* held: the player is GRAVITY below its top, falling
C18_Witness ==
  /\ obs.tick /\ "Space" \in keysPressed /\ player.present /\ ~player.onGround
  /\ player.vy = GRAVITY
  /\ \E i \in 1..Len(platformObjects) :
       /\ platformObjects[i].type = "breakable" /\ platformObjects[i].isBroken
       /\ platformObjects[i].respawnTimer = BREAKABLE_PLATFORM_RESPAWN_DURATION
       /\ player.y + player.height = platformObjects[i].y + GRAVITY
       /\ player.x < platformObjects[i].x + platformObjects[i].width
       /\ player.x + player.width > platformObjects[i].x

(***************************************************************************)
(* The oscillators                                                         *)
(***************************************************************************)
\* platform p is inside its corridor, on its line, with a direction
InCorridor(p) ==
  /\ p.type = "mobile" =>
       /\ p.x >= p.initialX - p.moveRangeX /\ p.x <= p.initialX + p.moveRangeX
       /\ p.y = p.initialY
       /\ p.moveDirectionX \in {-1, 1}
  /\ p.type = "vertical_mobile" =>
       /\ p.y >= p.initialY - p.moveRangeY /\ p.y <= p.initialY + p.moveRangeY
       /\ p.x = p.initialX
       /\ p.moveDirectionY \in {-1, 1}

\* what platform q records of the tick that took it from p
Recorded(p, q) ==
  /\ q.currentSpeedX = q.x - p.x /\ q.currentSpeedY = q.y - p.y
  /\ Abs(q.currentSpeedX) <= DEFAULT_PLATFORM_MOVE_SPEED
  /\ Abs(q.currentSpeedY) <= DEFAULT_PLATFORM_MOVE_SPEED

\* C19: every oscillator is within moveRange of its initial position on its
\* axis and at its initial position on the other, its direction is -1 or 1,
\* and after every tick currentSpeedX / currentSpeedY is the change of its
\* position in that tick, at most DEFAULT_PLATFORM_MOVE_SPEED in magnitude.
C19_OscillatorsInCorridor ==
  [][/\ \A i \in 1..Len(platformObjects) : InCorridor(platformObjects[i])
     /\ \A i \in 1..Len(platformObjects') : InCorridor(platformObjects'[i])
     /\ obs'.tick =>
          \A i \in 1..Len(platformObjects) :
            platformObjects[i].type \in {"mobile", "vertical_mobile"} =>
              Recorded(platformObjects[i], platformObjects'[i])]_vars

\* an oscillator has come back from the far end of its corridor to the near
\* end in the last tick
C19_Witness ==
  /\ obs.tick
  /\ \E i \in 1..Len(platformObjects) :
       /\ platformObjects[i].type = "vertical_mobile"
       /\ platformObjects[i].y = platformObjects[i].initialY - platformObjects[i].moveRangeY
       /\ platformObjects[i].currentSpeedY = -DEFAULT_PLATFORM_MOVE_SPEED

\* platform q has moved onto a bound of its corridor in the last tick
ReachedHigh(q) ==
  \/ q.type = "mobile" /\ q.currentSpeedX > 0 /\ q.x = q.initialX + q.moveRangeX
  \/ q.type = "vertical_mobile" /\ q.currentSpeedY > 0
       /\ q.y = q.initialY + q.moveRangeY

ReachedLow(q) ==
  \/ q.type = "mobile" /\ q.currentSpeedX < 0 /\ q.x = q.initialX - q.moveRangeX
  \/ q.type = "vertical_mobile" /\ q.currentSpeedY < 0
       /\ q.y = q.initialY - q.moveRangeY

Direction(q) == IF q.type = "mobile" THEN q.moveDirectionX ELSE q.moveDirectionY

\* C20: a tick that moves an oscillator (no platform in its way) onto a bound
\* of its corridor leaves its direction pointing away from that bound: -1 at
\* initial + moveRange, 1 at initial - moveRange.
C20_ReversesOnReachingBound ==
  [][obs'.tick =>
       \A i \in 1..Len(platformObjects') :
         /\ ReachedHigh(platformObjects'[i]) => Direction(platformObjects'[i]) = -1
         /\ ReachedLow(platformObjects'[i]) => Direction(platformObjects'[i]) = 1]_vars

(***************************************************************************)
(* Oscillators and the platforms in their way                              *)
(***************************************************************************)
\* rectangles a and b share a point of their interiors
Overlap(a, b) ==
  /\ a.x < b.x + b.width /\ b.x < a.x + a.width
  /\ a.y < b.y + b.height /\ b.y < a.y + a.height

\* where platform p would go in this tick
Candidate(p) ==
  IF p.type = "mobile"
  THEN Rect(p.x + DEFAULT_PLATFORM_MOVE_SPEED * p.moveDirectionX, p.y, p.width, p.height)
  ELSE Rect(p.x, p.y + DEFAULT_PLATFORM_MOVE_SPEED * p.moveDirectionY, p.width, p.height)

\* platform i, when its turn in the forEach comes, has a solid platform in its way
InTheWay(ps, i) ==
  \E j \in 1..Len(ps) :
    /\ j # i /\ Solid(PlatformsAfter(ps, i - 1)[j])
    /\ Overlap(Candidate(ps[i]), PlatRect(PlatformsAfter(ps, i - 1)[j]))

\* the candidate of p is inside the corridor of p
Within(p) ==
  IF p.type = "mobile"
  THEN /\ Candidate(p).x <= p.initialX + p.moveRangeX
       /\ Candidate(p).x >= p.initialX - p.moveRangeX
  ELSE /\ Candidate(p).y <= p.initialY + p.moveRangeY
       /\ Candidate(p).y >= p.initialY - p.moveRangeY

\* C21: in every tick, an oscillator whose candidate rectangle overlaps another
\* solid platform stays where it is, flips its direction and records no
\* displacement; an oscillator whose candidate overlaps no other solid platform
\* and is inside the corridor moves onto the candidate and keeps its direction.
C21_BlockedOscillatorTurns ==
  [][obs'.tick =>
       \A i \in 1..Len(platformObjects) :
         platformObjects[i].type \in {"mobile", "vertical_mobile"} =>
           /\ InTheWay(platformObjects, i) =>
                /\ platformObjects'[i].x = platformObjects[i].x
                /\ platformObjects'[i].y = platformObjects[i].y
                /\ Direction(platformObjects'[i]) = -Direction(platformObjects[i])
                /\ platformObjects'[i].currentSpeedX = 0
                /\ platformObjects'[i].currentSpeedY = 0
           /\ (~InTheWay(platformObjects, i) /\ Within(platformObjects[i])) =>
                /\ platformObjects'[i].x = Candidate(platformObjects[i]).x
                /\ platformObjects'[i].y = Candidate(platformObjects[i]).y
                /\ Direction(platformObjects'[i]) = Direction(platformObjects[i])]_vars

\* the last tick turned a mobile platform back inside its corridor
C21_Witness ==
  /\ obs.tick
  /\ \E i \in 1..Len(platformObjects) :
       /\ platformObjects[i].type = "mobile"
       /\ platformObjects[i].currentSpeedX = 0 /\ platformObjects[i].moveDirectionX = -1
       /\ platformObjects[i].x > platformObjects[i].initialX
       /\ platformObjects[i].x < platformObjects[i].initialX + platformObjects[i].moveRangeX

(***************************************************************************)
(* Timed platforms                                                         *)
(***************************************************************************)
\* the duration of the state timed platform p is in
DurationOf(p) ==
  IF p.isVisible THEN TIMED_PLATFORM_VISIBLE_DURATION ELSE TIMED_PLATFORM_HIDDEN_DURATION

\* the ticks of the current period of a timed platform, t ticks after the build
Phase(t) == t % (TIMED_PLATFORM_VISIBLE_DURATION + TIMED_PLATFORM_HIDDEN_DURATION)

\* timed platform p is where the schedule puts it t ticks after the build
OnSchedule(p, t) ==
  /\ p.isVisible = (Phase(t) < TIMED_PLATFORM_VISIBLE_DURATION)
  /\ p.timer = IF p.isVisible THEN TIMED_PLATFORM_VISIBLE_DURATION - Phase(t)
               ELSE TIMED_PLATFORM_VISIBLE_DURATION + TIMED_PLATFORM_HIDDEN_DURATION
                    - Phase(t)

\* C22: a timed platform is visible with a full countdown at the build; every
\* tick either counts its timer down by one and leaves isVisible alone, or,
\* when the timer stood at 1, toggles isVisible and reloads the timer with the
\* duration of the new state; so the timer is between 1 and the duration of
\* the state after every tick, and t ticks after the build the platform is
\* visible exactly when t modulo 300 is below 180, whatever the player does.
C22_TimedToggleSchedule ==
  [][/\ \A i \in 1..Len(platformObjects) :
          platformObjects[i].type = "timed" =>
            /\ platformObjects[i].timer >= 1
            /\ platformObjects[i].timer <= DurationOf(platformObjects[i])
            /\ TickLimit # 0 => OnSchedule(platformObjects[i], inst.ticks)
     /\ obs'.tick =>
          \A i \in 1..Len(platformObjects) :
            platformObjects[i].type = "timed" =>
              /\ platformObjects'[i].timer >= 1
              /\ platformObjects'[i].timer <= DurationOf(platformObjects'[i])
              /\ TickLimit # 0 => OnSchedule(platformObjects'[i], inst'.ticks)
              /\ IF platformObjects[i].timer = 1
                 THEN /\ platformObjects'[i].isVisible = ~platformObjects[i].isVisible
                      /\ platformObjects'[i].timer = DurationOf(platformObjects'[i])
                 ELSE /\ platformObjects'[i].isVisible = platformObjects[i].isVisible
                      /\ platformObjects'[i].timer = platformObjects[i].timer - 1]_vars

\* the last tick, the 600th of the level, made a timed platform visible for the
\* third time
C22_Witness ==
  /\ obs.tick
  /\ inst.ticks = 2 * (TIMED_PLATFORM_VISIBLE_DURATION + TIMED_PLATFORM_HIDDEN_DURATION)
  /\ \E i \in 1..Len(platformObjects) :
       /\ platformObjects[i].type = "timed" /\ platformObjects[i].isVisible
       /\ platformObjects[i].timer = TIMED_PLATFORM_VISIBLE_DURATION

(***************************************************************************)
(* Visibility and solidity                                                 *)
(***************************************************************************)
\* C23: after every tick (and at the build) the sprite of a timed or breakable
\* platform is visible exactly when the platform passes the collidablePlatforms
\* filter and the oscillators' otherSolid test: for a timed platform exactly
\* when isVisible, for a breakable exactly when not isBroken, the break delay
\* included.
C23_VisibleIffSolid ==
  \A i \in 1..Len(platformObjects) :
    LET p == platformObjects[i]
    IN /\ p.type \in {"timed", "breakable"} =>
            /\ p.spriteVisible <=> Collidable(p)
            /\ p.spriteVisible <=> OtherSolid(p)
       /\ p.type = "timed" => (p.spriteVisible <=> p.isVisible)
       /\ p.type = "breakable" => (p.spriteVisible <=> ~p.isBroken)
       /\ (p.type = "breakable" /\ p.isBreaking) => (p.spriteVisible /\ Collidable(p))

\* a tick ends with the player on a breakable that counts down its delay, shown
\* and solid
C23_Witness ==
  /\ obs.tick /\ player.onGround /\ player.standingOnPlatform # 0
  /\ platformObjects[player.standingOnPlatform].type = "breakable"
  /\ platformObjects[player.standingOnPlatform].isBreaking
  /\ platformObjects[player.standingOnPlatform].breakingTimer
       < BREAKABLE_PLATFORM_BREAK_DELAY
  /\ platformObjects[player.standingOnPlatform].spriteVisible

(***************************************************************************)
(* Riding an oscillator                                                    *)
(***************************************************************************)
\* rectangles a and b overlap or share a border
Touches(a, b) ==
  /\ a.x <= b.x + b.width /\ b.x <= a.x + a.width
  /\ a.y <= b.y + b.height /\ b.y <= a.y + a.height

\* the player stands on oscillator i, no key is held, and the player's
\* rectangle, moved as the tick moves the oscillator, touches no other solid
\* platform as the tick's platform update leaves them
RidesAlone(i) ==
  /\ player.present /\ player.onGround /\ player.standingOnPlatform = i
  /\ Oscillator(platformObjects[i]) /\ keysPressed = {}
  /\ \A j \in 1..Len(platformObjects) :
       (j # i /\ Solid(Updated[j])) =>
         ~Touches(Rect(player.x + Updated[i].x - platformObjects[i].x,
                       player.y + Updated[i].y - platformObjects[i].y
                         - (PLAYER_HEIGHT - player.height),
                       player.width, PLAYER_HEIGHT),
                  PlatRect(Updated[j]))

\* C24: a tick that starts with the player grounded on an oscillator, without
\* input and away from every other solid platform, moves the player as it moves
\* the oscillator: the offset of player.x from the platform's x is kept, the
\* player's bottom edge is the platform's top, and the player is still on the
\* ground, standing on that platform.
C24_CarriedWithThePlatform ==
  [][\A i \in 1..Len(platformObjects) :
       (RidesAlone(i) /\ obs'.tick) =>
         /\ player'.x - platformObjects'[i].x = player.x - platformObjects[i].x
         /\ platformObjects'[i].x - platformObjects[i].x = platformObjects'[i].currentSpeedX
         /\ platformObjects'[i].y - platformObjects[i].y = platformObjects'[i].currentSpeedY
         /\ player'.y + player'.height = platformObjects'[i].y
         /\ player'.onGround /\ player'.standingOnPlatform = i
         /\ player'.vx = 0 /\ player'.vy = 0]_vars

\* the last tick carried the player down on a vertical_mobile platform, or
\* sideways on a mobile one, without a landing
C24_Witness ==
  /\ obs.tick /\ obs.landed = 0 /\ keysPressed = {}
  /\ player.onGround /\ player.standingOnPlatform # 0
  /\ platformObjects[player.standingOnPlatform].type = "vertical_mobile"
  /\ platformObjects[player.standingOnPlatform].currentSpeedY > 0
  /\ player.y + player.height = platformObjects[player.standingOnPlatform].y

(***************************************************************************)
(* The jump                                                                *)
(***************************************************************************)
\* the player at the jump step (line 547) of the tick about to run
AtJumpStep ==
  HorizontalInput(CrouchTransition(Carry(Dropped, Updated), Updated, keysPressed),
                  keysPressed)

\* C25: a tick leaves the player with the velocity of a jump just started
\* (-JUMP_FORCE and the gravity of the tick) only if a jump key is held and the
\* player is on the ground and not crouching at the jump step, and then the
\* player is jumping, not on the ground and stands on nothing; a tick that
\* starts with the player in the air, or whose jump step finds the player
\* crouching, gives no upward impulse and does not set isJumping.
C25_JumpOnlyFromTheGround ==
  [][obs'.tick =>
       /\ (player'.vy = GRAVITY - JUMP_FORCE) =>
            /\ JumpKey(keysPressed) /\ player.onGround
            /\ AtJumpStep.onGround /\ ~AtJumpStep.isCrouching
            /\ player'.isJumping /\ ~player'.onGround
            /\ player'.standingOnPlatform = 0
       /\ (~player.onGround \/ AtJumpStep.isCrouching) =>
            /\ player'.vy = 0 \/ player'.vy = player.vy + GRAVITY
            /\ player'.isJumping => player.isJumping]_vars

\* a tick with the jump key held has just passed with the player rising in a
\* jump started earlier
C25_Witness ==
  /\ obs.tick /\ JumpKey(keysPressed) /\ player.isJumping /\ ~player.onGround
  /\ player.vy > GRAVITY - JUMP_FORCE /\ player.vy < 0

(***************************************************************************)
(* The crouch transition                                                   *)
(***************************************************************************)
\* the player before and after the crouch transition (lines 521-539) of the
\* tick about to run
BeforeCrouch == Carry(Dropped, Updated)

AfterCrouch == CrouchTransition(BeforeCrouch, Updated, keysPressed)

\* C26: the crouch transition of a tick changes the height only between
\* PLAYER_HEIGHT and PLAYER_CROUCH_HEIGHT and then moves y by the difference
\* the other way, so y + height is the same before and after it; it changes
\* nothing else of the position; and a tick that changes the height of a player
\* who stays on the ground on the same platform, at rest, leaves the feet in place.
C26_FeetStayPlanted ==
  [][obs'.tick =>
       /\ AfterCrouch.x = BeforeCrouch.x
       /\ AfterCrouch.height \in {PLAYER_HEIGHT, PLAYER_CROUCH_HEIGHT}
       /\ AfterCrouch.y + AfterCrouch.height = BeforeCrouch.y + BeforeCrouch.height
       /\ AfterCrouch.isCrouching <=> AfterCrouch.height = PLAYER_CROUCH_HEIGHT
       /\ (AfterCrouch.height # BeforeCrouch.height) =>
            Abs(AfterCrouch.y - BeforeCrouch.y) = PLAYER_HEIGHT - PLAYER_CROUCH_HEIGHT
       /\ (/\ player'.height # player.height /\ ~obs'.died
           /\ player.onGround /\ player'.onGround
           /\ player'.standingOnPlatform = player.standingOnPlatform
           /\ player.standingOnPlatform # 0
           /\ platformObjects'[player.standingOnPlatform].y
                = platformObjects[player.standingOnPlatform].y) =>
            player'.y + player'.height = player.y + player.height]_vars

\* the last tick left the player crouched on a platform, at crouch height, the
\* feet on its top, with a platform overhead that the full height would reach
C26_Witness ==
  /\ obs.tick /\ player.isCrouching /\ player.onGround
  /\ player.height = PLAYER_CROUCH_HEIGHT /\ player.standingOnPlatform # 0
  /\ player.y + player.height = platformObjects[player.standingOnPlatform].y
  /\ ~CanUncrouch(player, platformObjects)

(***************************************************************************)
(* The horizontal pass                                                     *)
(***************************************************************************)
\* the rectangle the horizontal pass tests for player pl: the new x, the y of
\* before the integration
PassRect(pl) == Rect(pl.x, Moved.y, pl.width, pl.height)

\* the player entering the horizontal pass of the tick about to run; the player
\* leaving it is EnteringVertical.pl
EnteringHorizontal == ClearGround(Integrate(Moved), Updated)

\* pl is flush against a vertical edge of platform p
Flush(pl, p) == pl.x + pl.width = p.x \/ pl.x = p.x + p.width

\* C27: for every solid platform that the player's rectangle at (new x,
\* previous y) overlaps, the horizontal pass leaves the player flush against an
\* edge of that platform, not overlapping it, with vx = 0, whether the overlap
\* comes from the player's input, from the carry or from the platform's motion.
C27_PushedOutOfEveryPlatform ==
  [][obs'.tick =>
       \A i \in 1..Len(Updated) :
         (Solid(Updated[i])
          /\ Overlap(PassRect(EnteringHorizontal), PlatRect(Updated[i]))) =>
           /\ EnteringVertical.pl.vx = 0
           /\ Flush(EnteringVertical.pl, Updated[i])
           /\ ~Overlap(PassRect(EnteringVertical.pl), PlatRect(Updated[i]))]_vars

(***************************************************************************)
(* Resting on a platform                                                   *)
(***************************************************************************)
\* the player is on the ground on platform i, which does not move and is solid
\* after the platform update of the tick about to run, and no key is held
RestsOn(i) ==
  /\ player.present /\ player.onGround /\ player.standingOnPlatform = i
  /\ ~Oscillator(platformObjects[i]) /\ Solid(Updated[i])
  /\ keysPressed = {}

\* C28: a tick that starts with the player at rest on a solid platform that does
\* not move, no key held, ends with the player at the same x and with the same
\* bottom edge (the same y at unchanged height), on the ground, standing on the
\* same platform, with vy = 0 and vx = 0.
C28_RestIsStable ==
  [][\A i \in 1..Len(platformObjects) :
       (RestsOn(i) /\ obs'.tick) =>
         /\ player'.x = player.x
         /\ player'.y + player'.height = player.y + player.height
         /\ player'.height = player.height => player'.y = player.y
         /\ player'.y + player'.height = platformObjects'[i].y
         /\ player'.onGround /\ player'.standingOnPlatform = i
         /\ player'.vy = 0 /\ player'.vx = 0
         /\ ~obs'.died]_vars

\* the player has stood on a standard platform, without a key, for more than
\* 300 ticks, and the last of them was no landing
C28_Witness ==
  /\ obs.tick /\ obs.landed = 0 /\ keysPressed = {} /\ inst.ticks > 300
  /\ player.onGround /\ player.standingOnPlatform # 0
  /\ platformObjects[player.standingOnPlatform].type = "standard"
  /\ player.vy = 0

(***************************************************************************)
(* The order of a tick                                                     *)
(***************************************************************************)
\* the calls that hand an event of the tick to the host
Forwards == {"setDeathCount", "onRequestNewLevel"}

\* C29: every tick advances the platforms first and the player second, and
\* hands an event (the death, the completion) to the host only after the
\* camera has been advanced.
C29_EventsAfterTheCamera ==
  [][obs'.tick =>
       /\ Len(obs'.order) >= 2
       /\ obs'.order[1] = "platforms" /\ obs'.order[2] = "player"
       /\ \A i \in 1..Len(obs'.order) :
            obs'.order[i] \in Forwards =>
              \E j \in 1..(i - 1) : obs'.order[j] = "camera"]_vars

(***************************************************************************)
(* The camera                                                              *)
(***************************************************************************)
\* a step of a camera axis from a towards target t that ends at b: a tenth of
\* the distance, taken to 1/Scale pixel towards a
TenthOfTheWay(a, t, b) ==
  /\ (t >= a) => (b >= a /\ 10 * (b - a) <= t - a /\ 10 * (b - a) > t - a - 10)
  /\ (t <= a) => (b <= a /\ 10 * (a - b) <= a - t /\ 10 * (a - b) > a - t - 10)
  /\ b = t => a = t

\* C30: a tick on a screen with a size moves each axis of the camera by
\* CAMERA_LERP_FACTOR of its distance to the target (the player's centre, or
\* the crouch view point), never past the target and never onto it, also in
\* the tick of a death respawn; a tick without a screen size leaves the camera;
\* a step that is no tick changes the camera only by building a level (onto the
\* player's centre) or by making a new container (pivot 0, 0).
C30_CameraLerps ==
  [][/\ (obs'.tick /\ app.hasScreen) =>
          /\ TenthOfTheWay(camera.x, CameraTarget(player').x, camera'.x)
          /\ TenthOfTheWay(camera.y, CameraTarget(player').y, camera'.y)
     /\ (obs'.tick /\ ~app.hasScreen) => camera' = camera
     /\ (~obs'.tick /\ camera' # camera) =>
          \/ camera' = NoCamera
          \/ /\ player'.present /\ inst' = NewInstance(Len(platformObjects'))
             /\ 2 * camera'.x = 2 * player'.x + player'.width
             /\ 2 * camera'.y = 2 * player'.y + player'.height]_vars

\* the last tick respawned the player and left the camera far below
C30_Witness ==
  /\ obs.tick /\ obs.died /\ app.hasScreen
  /\ camera.y > CameraTarget(player).y + 100 * Scale


(***************************************************************************)
(* The camera's guard against values that are not finite                   *)
(***************************************************************************)
\* C31 (as stated): in a tick in which the camera step runs, a camera offset
\* or a target that is not finite makes the step set the offset to the safe
\* default instead of interpolating, and the offset is finite on both axes
\* when the tick ends.
C31_NonFiniteNeverSurvives ==
  [][(obs'.tick /\ app.hasScreen) =>
       /\ NotFinite(camera, CameraTarget(player')) => camera' = SafeDefault(player')
       /\ isFinite(camera'.x) /\ isFinite(camera'.y)]_vars

(***************************************************************************)
(* Level generation requests                                               *)
(***************************************************************************)
\* this step is the continuation of request i of the calls in flight
SettledAt(i) ==
  /\ Len(inflight') = Len(inflight) - 1
  /\ inflight' = RemoveAt(inflight, i)

\* the continuation took the error branch (or the catch): no new level object
Failed == ~host'.fresh

\* C32 (as stated): a request that fails leaves the level number as it was,
\* leaves no level loaded, clears the loading flag and, when it was the request
\* for the initial level, sets gameStarted to false; a request made by a
\* LevelCompleted that succeeds raises the level number by exactly one; and no
\* tick runs while no level is loaded.
C32_FailedRequestLeavesHostSound ==
  [][/\ \A i \in 1..Len(inflight) :
          SettledAt(i) =>
            IF Failed
            THEN /\ host'.levelCount = host.levelCount
                 /\ host'.generatedLevel = 0
                 /\ ~host'.isLoadingLevel
                 /\ inflight[i].kind = "start" => ~host'.gameStarted
            ELSE inflight[i].kind = "auto" => host'.levelCount = host.levelCount + 1
     /\ obs'.tick => shown.level # 0]_vars

\* a call of handleGenerateLevelAction was in flight when the last step began
\* (a tick that calls onRequestNewLevel adds its own)
InFlightBefore ==
  IF obs.tick /\ obs.completed THEN Len(inflight) > 1 ELSE Len(inflight) > 0

\* C33 (as stated): while a generation request, automatic or manual, is in
\* flight, the host's loading flag is true and no tick of the simulation runs
\* (a tick of the render that has the host's loading flag, so that the ticks
\* between the start of a request and the render that shows it do not count).
C33_LoadingUntilAllSettled ==
  /\ Len(inflight) > 0 => host.isLoadingLevel
  /\ (obs.tick /\ ~obs.loading) => ~InFlightBefore

(***************************************************************************)
(* The death check and the completion check of one tick                    *)
(***************************************************************************)
\* C34: no tick both counts a death and calls onRequestNewLevel: a tick in
\* which the player dies leaves the player off the ground and standing on no
\* platform, and does not signal completion.
C34_DeathExcludesCompletion ==
  (obs.tick /\ obs.died) =>
    /\ ~obs.completed
    /\ ~player.onGround /\ player.standingOnPlatform = 0

\* a tick in which the player dies in a level it has not completed
C34_Witness ==
  /\ obs.tick /\ obs.died
  /\ lastPlatform # 0 /\ ~newLevelRequested

\* the player as lines 612-627 of the coming tick leave it
Supported == AfterCollision(player, platformObjects, keysPressed).pl.onGround

\* C35: the top of every platform, wherever an oscillator has taken it, is
\* above the death boundary, and a tick in which the reconciliation leaves the
\* player on the ground does not count a death.
C35_NoDeathWhileSupported ==
  [][/\ \A i \in 1..Len(platformObjects) :
          platformObjects[i].y < gameWorldMaxY(platformObjects)
     /\ (obs'.tick /\ Supported) => ~obs'.died]_vars

\* the player rides a vertical oscillator that is at the bottom of its range,
\* below the bottom edge of the logical screen
C35_Witness ==
  /\ obs.tick /\ player.onGround /\ player.standingOnPlatform # 0
  /\ LET p == platformObjects[player.standingOnPlatform]
     IN /\ p.type = "vertical_mobile"
        /\ p.y >= p.initialY + p.moveRangeY
        /\ player.y + player.height > LOGICAL_GAME_HEIGHT

(***************************************************************************)
(* Falling                                                                 *)
(***************************************************************************)
Airborne == player.present /\ ~player.onGround

\* the coming tick leaves the player and the platforms exactly as they are,
\* and calls neither setDeathCount nor onRequestNewLevel
TickChangesNothing ==
  /\ Outcome.pl = player /\ Outcome.ps = platformObjects
  /\ ~Outcome.died /\ ~Outcome.completed

\* C36 (as stated, in the form a finite run refutes): while the ticker keeps
\* calling gameLoop, a player in the air eventually lands or is counted dead
\* and respawned; so the game never reaches a state in which the player is in
\* the air and a tick changes nothing, from which the ticks go on for ever
\* without a landing or a death.
C36_FallEndsInDeath ==
  ~(obs.tick /\ Runs /\ Airborne /\ ~obs.died /\ TickChangesNothing)

(***************************************************************************)
(* The crouch flag and the player's height                                 *)
(***************************************************************************)
\* C37: whenever there is a player (after every tick, death and level build),
\* isCrouching is true exactly when the height is the crouched height and
\* false exactly when it is the full height.
C37_CrouchFlagMatchesHeight ==
  player.present =>
    /\ player.isCrouching <=> player.height = PLAYER_CROUCH_HEIGHT
    /\ ~player.isCrouching <=> player.height = PLAYER_HEIGHT

\* a tick has refused to uncrouch: the crouch key is up and the player is
\* still crouched
C37_Witness ==
  /\ obs.tick /\ ~CrouchKey(keysPressed)
  /\ player.isCrouching /\ player.height = PLAYER_CROUCH_HEIGHT

(***************************************************************************)
(* The phases of a breakable platform                                      *)
(***************************************************************************)
\* C38: for every breakable platform, in every state the loop leaves behind:
\* isBroken and isBreaking are never both true; isBreaking implies
\* 1 <= breakingTimer <= 30; isBroken implies 1 <= respawnTimer <= 300; so
\* "breaking with breakingTimer <= 0" never occurs and the platform is solid
\* exactly when it is not broken.
C38_BreakablePhases ==
  \A i \in 1..Len(platformObjects) :
    LET p == platformObjects[i]
    IN p.type = "breakable" =>
         /\ ~(p.isBroken /\ p.isBreaking)
         /\ p.isBreaking =>
              (p.breakingTimer >= 1 /\ p.breakingTimer <= BREAKABLE_PLATFORM_BREAK_DELAY)
         /\ p.isBroken =>
              (p.respawnTimer >= 1 /\ p.respawnTimer <= BREAKABLE_PLATFORM_RESPAWN_DURATION)
         /\ ~(p.isBreaking /\ p.breakingTimer <= 0)
         /\ Solid(p) <=> ~p.isBroken

\* a broken platform in the last tick of its respawn countdown: it has gone
\* through the whole break delay and all but one tick of the respawn duration
C38_Witness ==
  /\ obs.tick
  /\ \E i \in 1..Len(platformObjects) :
       /\ platformObjects[i].type = "breakable"
       /\ platformObjects[i].isBroken /\ ~platformObjects[i].isBreaking
       /\ platformObjects[i].breakingTimer = 0
       /\ platformObjects[i].respawnTimer = 1

(***************************************************************************)
(* The player and the solid platforms                                      *)
(***************************************************************************)
\* C39: at the end of every tick the player's rectangle does not overlap, with
\* positive area, the rectangle of any platform that is solid at that moment.
C39_NeverInsideASolidPlatform ==
  (obs.tick /\ player.present) =>
    \A i \in 1..Len(platformObjects) :
      Solid(platformObjects[i]) =>
        ~Overlap(PlayerRect(player), PlatRect(platformObjects[i]))

(***************************************************************************)
(* The ground under a jump                                                 *)
(***************************************************************************)
\* C40: a tick starts a jump (the test of line 547 passes) only if the platform
\* the player stands on at that step is solid after the platform update of the
\* same tick; no jump starts off a timed platform in the tick that hides it or
\* off a breakable in the tick that breaks it.
C40_JumpOnlyOffSolidGround ==
  [][(obs'.tick /\ JumpStarts(AtJumpStep, keysPressed)
               /\ AtJumpStep.standingOnPlatform # 0) =>
       Solid(Updated[AtJumpStep.standingOnPlatform])]_vars
====
